---------------------------- MODULE Spec2Model ----------------------------
(***************************************************************************)
(* Guardian's detection engine (internal/checks/runner.go): the built-in   *)
(* file scanner checkFile, the tree walker behind RunAll and DryRun, the   *)
(* parser of the external script's output and the severity table.          *)
(*                                                                         *)
(* A Go string is modelled as a sequence of one-character strings, so that *)
(* trimming, splitting, substring search and the regular expressions are   *)
(* computed the way the code computes them.                                *)
(***************************************************************************)
EXTENDS Integers, Sequences, FiniteSets, TLC

(***************************************************************************)
(* Characters                                                              *)
(***************************************************************************)
DQ == "\""
SQ == "'"
BS == "\\"
NL == "\n"

LowerLetters ==
    <<"a", "b", "c", "d", "e", "f", "g", "h", "i", "j", "k", "l", "m",
      "n", "o", "p", "q", "r", "s", "t", "u", "v", "w", "x", "y", "z">>

UpperLetters ==
    <<"A", "B", "C", "D", "E", "F", "G", "H", "I", "J", "K", "L", "M",
      "N", "O", "P", "Q", "R", "S", "T", "U", "V", "W", "X", "Y", "Z">>

Range(f) == {f[k] : k \in DOMAIN f}

Digits == {"0", "1", "2", "3", "4", "5", "6", "7", "8", "9"}

\* What strings.TrimSpace strips and what \s matches, among the characters used.
Whitespace == {" ", "\t", "\r"}

Punctuation ==
    {DQ, SQ, BS, "#", "/", "(", ")", "=", ":", ",", ".", "_", "-", "*", ";",
     "@", "[", "]", "+", "{", "}", "!", "<", ">"}

\* The characters of a line (no newline): what "." matches.
LineChars ==
    Range(LowerLetters) \cup Range(UpperLetters) \cup Digits \cup Whitespace
        \cup Punctuation

\* \w of the regexp package: [0-9A-Za-z_]
WordChars == Range(LowerLetters) \cup Range(UpperLetters) \cup Digits \cup {"_"}

\* \S
NonSpace == LineChars \ Whitespace

ToLowerChar(c) ==
    IF \E k \in 1..26 : UpperLetters[k] = c
    THEN LowerLetters[CHOOSE k \in 1..26 : UpperLetters[k] = c]
    ELSE c

ToUpperChar(c) ==
    IF \E k \in 1..26 : LowerLetters[k] = c
    THEN UpperLetters[CHOOSE k \in 1..26 : LowerLetters[k] = c]
    ELSE c

(***************************************************************************)
(* The strings package                                                     *)
(***************************************************************************)
ToLower(s) == [k \in 1..Len(s) |-> ToLowerChar(s[k])]

ToUpper(s) == [k \in 1..Len(s) |-> ToUpperChar(s[k])]

\* s[from:] in Go's 0-based slicing, as a 1-based sequence
Drop(s, n) == SubSeq(s, n + 1, Len(s))

Take(s, n) == SubSeq(s, 1, n)

HasPrefix(s, prefix) ==
    /\ Len(prefix) <= Len(s)
    /\ SubSeq(s, 1, Len(prefix)) = prefix

HasSuffix(s, suffix) ==
    /\ Len(suffix) <= Len(s)
    /\ SubSeq(s, Len(s) - Len(suffix) + 1, Len(s)) = suffix

\* Whether sub occurs in s at (1-based) position p.
OccursAt(s, sub, p) ==
    /\ p >= 1
    /\ p + Len(sub) - 1 <= Len(s)
    /\ \A k \in 1..Len(sub) : s[p + k - 1] = sub[k]

\* strings.Index, 1-based; 0 when sub does not occur.
Index(s, sub) ==
    IF \E p \in 1..(Len(s) + 1) : OccursAt(s, sub, p)
    THEN CHOOSE p \in 1..(Len(s) + 1) :
            /\ OccursAt(s, sub, p)
            /\ \A q \in 1..(p - 1) : ~OccursAt(s, sub, q)
    ELSE 0

Contains(s, sub) == Index(s, sub) # 0

\* strings.TrimSpace
TrimSpace(s) ==
    IF \A k \in 1..Len(s) : s[k] \in Whitespace
    THEN <<>>
    ELSE LET first == CHOOSE a \in 1..Len(s) :
                          /\ s[a] \notin Whitespace
                          /\ \A k \in 1..(a - 1) : s[k] \in Whitespace
             last  == CHOOSE b \in 1..Len(s) :
                          /\ s[b] \notin Whitespace
                          /\ \A k \in (b + 1)..Len(s) : s[k] \in Whitespace
         IN  SubSeq(s, first, last)

\* strings.Split(s, "\n"): the segments between newlines, always at least one.
RECURSIVE Split(_)
Split(s) ==
    IF Len(s) = 0 THEN << <<>> >>
    ELSE IF Len(s) = 1 THEN (IF s[1] = NL THEN << <<>>, <<>> >> ELSE <<s>>)
    ELSE LET m == Len(s) \div 2
             l == Split(SubSeq(s, 1, m))
             r == Split(SubSeq(s, m + 1, Len(s)))
         IN  SubSeq(l, 1, Len(l) - 1) \o <<l[Len(l)] \o r[1]>>
                 \o SubSeq(r, 2, Len(r))

\* strings.Split(s, sep)[0]: the part of s before the first occurrence of sep.
SplitFirst(s, sep) ==
    IF Contains(s, sep) THEN Take(s, Index(s, sep) - 1) ELSE s

\* strings.ReplaceAll(s, old, ""): non-overlapping occurrences, left to right.
RECURSIVE RemoveAll(_, _)
RemoveAll(s, old) ==
    IF Contains(s, old)
    THEN LET p == Index(s, old)
         IN  Take(s, p - 1) \o RemoveAll(Drop(s, p - 1 + Len(old)), old)
    ELSE s

\* strings.Count(s, c) for a one-character c
Count(s, c) == Cardinality({k \in 1..Len(s) : s[k] = c})

\* strconv.Itoa for n >= 0
RECURSIVE Itoa(_)
Itoa(n) ==
    LET d == <<"0", "1", "2", "3", "4", "5", "6", "7", "8", "9">>
    IN  IF n < 10 THEN <<d[n + 1]>> ELSE Itoa(n \div 10) \o <<d[(n % 10) + 1]>>

(***************************************************************************)
(* The regexp package, for the patterns the code compiles.  A pattern is a *)
(* sequence of elements, each a character class with a quantifier:         *)
(* "1" (exactly one), "*" (zero or more), "+" (one or more).               *)
(***************************************************************************)
One(cls) == [c |-> cls, q |-> "1"]
Star(cls) == [c |-> cls, q |-> "*"]
Plus(cls) == [c |-> cls, q |-> "+"]

\* a literal, character by character
Lit(s) == [k \in 1..Len(s) |-> One({s[k]})]

\* a literal under (?i)
LitI(s) == [k \in 1..Len(s) |-> One({ToLowerChar(s[k]), ToUpperChar(s[k])})]

\* Whether elements k.. of pattern p match a prefix of s[pos..].
RECURSIVE MatchFrom(_, _, _, _)
MatchFrom(p, k, s, pos) ==
    IF k > Len(p) THEN TRUE
    ELSE LET here == pos <= Len(s) /\ s[pos] \in p[k].c
         IN  CASE p[k].q = "1" -> here /\ MatchFrom(p, k + 1, s, pos + 1)
               [] p[k].q = "*" ->
                      \/ MatchFrom(p, k + 1, s, pos)
                      \/ here /\ MatchFrom(p, k, s, pos + 1)
               [] p[k].q = "+" ->
                      here /\ (\/ MatchFrom(p, k + 1, s, pos + 1)
                               \/ MatchFrom(p, k, s, pos + 1))

\* The positions at which an unanchored pattern matches.
MatchStarts(p, s) == {pos \in 1..(Len(s) + 1) : MatchFrom(p, 1, s, pos)}

\* Regexp.MatchString for an unanchored pattern
MatchString(p, s) == MatchStarts(p, s) # {}

\* Whether any pattern of a list matches
AnyMatch(ps, s) == \E k \in 1..Len(ps) : MatchString(ps[k], s)

(***************************************************************************)
(* The pre-compiled patterns (runner.go, package-level var block)          *)
(***************************************************************************)
mockPatternRegexes ==
    <<Lit(<<"t", "e", "s", "t", "@", "e", "x", "a", "m", "p", "l", "e", ".", "c", "o", "m">>),
      Lit(<<"e", "x", "a", "m", "p", "l", "e", "@">>),
      Lit(<<"@", "t", "e", "s", "t", ".", "c", "o", "m">>),
      Lit(<<"f", "a", "k", "e", "_">>),
      Lit(<<"_", "f", "a", "k", "e">>),
      Lit(<<"m", "o", "c", "k", "_">>),
      Lit(<<"_", "m", "o", "c", "k">>),
      Lit(<<"d", "u", "m", "m", "y", "_">>),
      Lit(<<"p", "l", "a", "c", "e", "h", "o", "l", "d", "e", "r">>),
      Lit(<<"t", "e", "s", "t", "_", "u", "s", "e", "r">>),
      Lit(<<"t", "e", "s", "t", "_", "p", "a", "s", "s", "w", "o", "r", "d">>),
      Lit(<<"c", "h", "a", "n", "g", "e", "m", "e">>),
      Lit(<<"y", "o", "u", "r", "_">>) \o <<Star(LineChars)>> \o Lit(<<"_", "h", "e", "r", "e">>)>>

\* print\s*\( ; the leading \b is in printRe
printCall ==
    Lit(<<"p", "r", "i", "n", "t">>) \o <<Star(Whitespace)>> \o Lit(<<"(">>)

\* except\s*:
bareExceptRe ==
    Lit(<<"e", "x", "c", "e", "p", "t">>) \o <<Star(Whitespace)>> \o Lit(<<":">>)

\* eval\s*\( ; the leading (?:^|[=(:,\s]) is in evalRe
evalCall ==
    Lit(<<"e", "v", "a", "l">>) \o <<Star(Whitespace)>> \o Lit(<<"(">>)

\* exec\s*\(
execCall ==
    Lit(<<"e", "x", "e", "c">>) \o <<Star(Whitespace)>> \o Lit(<<"(">>)

\* [=(:,\s]
CallDelimiters ==
    {"=", "(", ":", ","} \cup Whitespace

\* from\s+\S+\s+import\s+\*
starImportRe ==
    Lit(<<"f", "r", "o", "m">>) \o <<Plus(Whitespace), Plus(NonSpace), Plus(Whitespace)>>
        \o Lit(<<"i", "m", "p", "o", "r", "t">>) \o <<Plus(Whitespace)>> \o Lit(<<"*">>)

\* (?i)f["'](?:SELECT|INSERT|UPDATE|DELETE), one pattern per alternative
sqlInjectionRe ==
    <<LitI(<<"f">>) \o <<One({DQ, SQ})>> \o LitI(<<"S", "E", "L", "E", "C", "T">>),
      LitI(<<"f">>) \o <<One({DQ, SQ})>> \o LitI(<<"I", "N", "S", "E", "R", "T">>),
      LitI(<<"f">>) \o <<One({DQ, SQ})>> \o LitI(<<"U", "P", "D", "A", "T", "E">>),
      LitI(<<"f">>) \o <<One({DQ, SQ})>> \o LitI(<<"D", "E", "L", "E", "T", "E">>)>>

dangerousPatternRegexes ==
    <<LitI(<<"r", "m">>) \o <<Plus(Whitespace)>> \o LitI(<<"-", "r", "f">>),
      LitI(<<"D", "R", "O", "P">>) \o <<Plus(Whitespace)>> \o LitI(<<"T", "A", "B", "L", "E">>),
      LitI(<<"D", "R", "O", "P">>) \o <<Plus(Whitespace)>> \o LitI(<<"D", "A", "T", "A", "B", "A", "S", "E">>),
      LitI(<<"D", "E", "L", "E", "T", "E">>) \o <<Plus(Whitespace)>> \o LitI(<<"F", "R", "O", "M">>)
          \o <<Plus(Whitespace), Plus(WordChars), Star(Whitespace)>> \o Lit(<<";">>),
      LitI(<<"T", "R", "U", "N", "C", "A", "T", "E">>) \o <<Plus(Whitespace)>> \o LitI(<<"T", "A", "B", "L", "E">>)>>

\* \s*=\s*["'][^"']+["']
QuotedValue ==
    <<Star(Whitespace)>> \o Lit(<<"=">>) \o <<Star(Whitespace), One({DQ, SQ}),
        Plus(LineChars \ {DQ, SQ}), One({DQ, SQ})>>

secretPatternRegexes ==
    <<LitI(<<"a", "p", "i", "_", "k", "e", "y">>) \o QuotedValue,
      LitI(<<"p", "a", "s", "s", "w", "o", "r", "d">>) \o QuotedValue,
      LitI(<<"s", "e", "c", "r", "e", "t">>) \o QuotedValue,
      LitI(<<"A", "W", "S", "_", "S", "E", "C", "R", "E", "T">>),
      LitI(<<"P", "R", "I", "V", "A", "T", "E", "_", "K", "E", "Y">>)>>

ConsoleLog ==
    <<"c", "o", "n", "s", "o", "l", "e", ".", "l", "o", "g", "(">>

ShellTrue ==
    <<"s", "h", "e", "l", "l", "=", "T", "r", "u", "e">>

TodoMark ==
    <<"T", "O", "D", "O">>

FixmeMark ==
    <<"F", "I", "X", "M", "E">>

HackMark ==
    <<"H", "A", "C", "K">>

TripleDouble ==
    <<"\"", "\"", "\"">>

TripleSingle ==
    <<"'", "'", "'">>

HashMark ==
    <<"#">>

SlashMark ==
    <<"/", "/">>

EscapedDouble ==
    <<"\\", "\"">>

EscapedSingle ==
    <<"\\", "'">>

EvalWord ==
    <<"e", "v", "a", "l">>

ExecWord ==
    <<"e", "x", "e", "c">>

(***************************************************************************)
(* Rule ids, messages, severities                                          *)
(***************************************************************************)
RuleFileSize ==
    <<"f", "i", "l", "e", "-", "s", "i", "z", "e">>

RuleMockData ==
    <<"m", "o", "c", "k", "-", "d", "a", "t", "a">>

RuleBanPrint ==
    <<"b", "a", "n", "-", "p", "r", "i", "n", "t">>

RuleBanConsole ==
    <<"b", "a", "n", "-", "c", "o", "n", "s", "o", "l", "e">>

RuleBanExcept ==
    <<"b", "a", "n", "-", "e", "x", "c", "e", "p", "t">>

RuleBanEval ==
    <<"b", "a", "n", "-", "e", "v", "a", "l">>

RuleBanStar ==
    <<"b", "a", "n", "-", "s", "t", "a", "r">>

RuleTodoMarker ==
    <<"t", "o", "d", "o", "-", "m", "a", "r", "k", "e", "r">>

RuleDangerousCmd ==
    <<"d", "a", "n", "g", "e", "r", "o", "u", "s", "-", "c", "m", "d">>

RuleSecretPattern ==
    <<"s", "e", "c", "r", "e", "t", "-", "p", "a", "t", "t", "e", "r", "n">>

RuleSqlInjection ==
    <<"s", "q", "l", "-", "i", "n", "j", "e", "c", "t", "i", "o", "n">>

RuleSubprocessShell ==
    <<"s", "u", "b", "p", "r", "o", "c", "e", "s", "s", "-", "s", "h", "e", "l", "l">>

MsgMockData ==
    <<"P", "o", "s", "s", "i", "b", "l", "e", " ", "t", "e", "s",
      "t", "/", "m", "o", "c", "k", " ", "d", "a", "t", "a", " ",
      "d", "e", "t", "e", "c", "t", "e", "d">>

MsgBanPrint ==
    <<"R", "e", "m", "o", "v", "e", " ", "p", "r", "i", "n", "t",
      "(", ")", " ", "-", " ", "u", "s", "e", " ", "l", "o", "g",
      "g", "i", "n", "g", " ", "i", "n", "s", "t", "e", "a", "d">>

MsgBanConsole ==
    <<"R", "e", "m", "o", "v", "e", " ", "c", "o", "n", "s", "o",
      "l", "e", ".", "l", "o", "g", "(", ")", " ", "-", " ", "u",
      "s", "e", " ", "p", "r", "o", "p", "e", "r", " ", "l", "o",
      "g", "g", "i", "n", "g">>

MsgBanExcept ==
    <<"A", "v", "o", "i", "d", " ", "b", "a", "r", "e", " ", "e",
      "x", "c", "e", "p", "t", ":", " ", "-", " ", "c", "a", "t",
      "c", "h", " ", "s", "p", "e", "c", "i", "f", "i", "c", " ",
      "e", "x", "c", "e", "p", "t", "i", "o", "n", "s">>

MsgEval ==
    <<"A", "v", "o", "i", "d", " ", "e", "v", "a", "l", "(", ")",
      " ", "-", " ", "s", "e", "c", "u", "r", "i", "t", "y", " ",
      "r", "i", "s", "k">>

MsgExec ==
    <<"A", "v", "o", "i", "d", " ", "e", "x", "e", "c", "(", ")",
      " ", "-", " ", "s", "e", "c", "u", "r", "i", "t", "y", " ",
      "r", "i", "s", "k">>

MsgBanStar ==
    <<"A", "v", "o", "i", "d", " ", "w", "i", "l", "d", "c", "a",
      "r", "d", " ", "i", "m", "p", "o", "r", "t", "s", " ", "-",
      " ", "i", "m", "p", "o", "r", "t", " ", "s", "p", "e", "c",
      "i", "f", "i", "c", " ", "n", "a", "m", "e", "s">>

MsgTodoMarker ==
    <<"R", "e", "s", "o", "l", "v", "e", " ", "T", "O", "D", "O",
      "/", "F", "I", "X", "M", "E", " ", "b", "e", "f", "o", "r",
      "e", " ", "c", "o", "m", "m", "i", "t", "t", "i", "n", "g">>

MsgDangerousCmd ==
    <<"D", "a", "n", "g", "e", "r", "o", "u", "s", " ", "c", "o",
      "m", "m", "a", "n", "d", " ", "d", "e", "t", "e", "c", "t",
      "e", "d", " ", "-", " ", "r", "e", "v", "i", "e", "w", " ",
      "c", "a", "r", "e", "f", "u", "l", "l", "y">>

MsgSecretPattern ==
    <<"P", "o", "s", "s", "i", "b", "l", "e", " ", "h", "a", "r",
      "d", "c", "o", "d", "e", "d", " ", "s", "e", "c", "r", "e",
      "t", " ", "-", " ", "u", "s", "e", " ", "e", "n", "v", "i",
      "r", "o", "n", "m", "e", "n", "t", " ", "v", "a", "r", "i",
      "a", "b", "l", "e", "s">>

MsgSqlInjection ==
    <<"f", "-", "s", "t", "r", "i", "n", "g", " ", "i", "n", " ",
      "S", "Q", "L", " ", "q", "u", "e", "r", "y", " ", "-", " ",
      "u", "s", "e", " ", "p", "a", "r", "a", "m", "e", "t", "e",
      "r", "i", "z", "e", "d", " ", "q", "u", "e", "r", "i", "e",
      "s">>

MsgSubprocessShell ==
    <<"A", "v", "o", "i", "d", " ", "s", "h", "e", "l", "l", "=",
      "T", "r", "u", "e", " ", "i", "n", " ", "s", "u", "b", "p",
      "r", "o", "c", "e", "s", "s", " ", "-", " ", "s", "e", "c",
      "u", "r", "i", "t", "y", " ", "r", "i", "s", "k">>

MsgFileHas ==
    <<"F", "i", "l", "e", " ", "h", "a", "s", " ">>

MsgLinesMax ==
    <<" ", "l", "i", "n", "e", "s", " ", "(", "m", "a", "x", " ", "5", "0", "0", ")">>

\* a finding numbered by the loop's index i instead of i + 1
IssueZeroBased(file, line, rule, message, severity) ==
    [File |-> file, Line |-> line - 1, Rule |-> rule, Message |-> message,
     Severity |-> severity]

(***************************************************************************)
(* Issue and the severity table                                            *)
(***************************************************************************)
Issue(file, line, rule, message, severity) ==
    [File |-> file, Line |-> line, Rule |-> rule, Message |-> message,
     Severity |-> severity]

criticalRules == {RuleBanEval, RuleDangerousCmd, RuleSecretPattern, RuleSqlInjection}

infoRules == {RuleBanPrint, RuleBanConsole, RuleTodoMarker}

\* a severity table that rates every rule a warning
getSeverityAllWarning(rule) == "warning"

\* lines 448-471
getSeverity(rule) ==
    IF rule \in criticalRules THEN "critical"
    ELSE IF rule \in infoRules THEN "info"
    ELSE "warning"

(***************************************************************************)
(* checkFile: line count, file-size check, and the body of the line loop   *)
(***************************************************************************)
\* a count that keeps the empty element a final newline leaves
LineCountUncorrected(ls) == Len(ls)

\* lines 169-175: the element count of the split, less a final empty element
LineCountOf(ls) ==
    IF Len(ls) > 0 /\ ls[Len(ls)] = <<>> THEN Len(ls) - 1 ELSE Len(ls)

\* DryRun, lines 504-509: the same count, written out a second time there
DryRunLineCount(text) ==
    LET ls == Split(text)
    IN  IF Len(ls) > 0 /\ ls[Len(ls)] = <<>> THEN Len(ls) - 1 ELSE Len(ls)

MaxFileLines == 500

\* a file-size check that already fires at the maximum
FileSizeIssuesAtMax(path, n) ==
    IF n >= MaxFileLines
    THEN <<Issue(path, 1, RuleFileSize, MsgFileHas \o Itoa(n) \o MsgLinesMax,
                 "warning")>>
    ELSE <<>>

\* lines 178-187
FileSizeIssues(path, n) ==
    IF n > MaxFileLines
    THEN <<Issue(path, 1, RuleFileSize, MsgFileHas \o Itoa(n) \o MsgLinesMax,
                 "warning")>>
    ELSE <<>>

\* isComment
IsCommentLine(trimmed) == HasPrefix(trimmed, HashMark) \/ HasPrefix(trimmed, SlashMark)

\* \bprint\s*\(
printRe(s) ==
    \E pos \in MatchStarts(printCall, s) : pos = 1 \/ s[pos - 1] \notin WordChars

\* (?:^|[=(:,\s])eval\s*\(
evalRe(s) ==
    \E pos \in MatchStarts(evalCall, s) : pos = 1 \/ s[pos - 1] \in CallDelimiters

\* (?:^|[=(:,\s])exec\s*\(
execRe(s) ==
    \E pos \in MatchStarts(execCall, s) : pos = 1 \/ s[pos - 1] \in CallDelimiters

\* lines 279-286: the text before the first "eval" (or "exec") of the line holds
\* an even number of each quote, escaped quotes removed first
QuotesBalancedBefore(line, word) ==
    LET before == SplitFirst(line, word)
        cleaned == RemoveAll(RemoveAll(before, EscapedDouble), EscapedSingle)
    IN  /\ Count(cleaned, DQ) % 2 = 0
        /\ Count(cleaned, SQ) % 2 = 0

HasTodoMarker(line) ==
    LET upperLine == ToUpper(line)
    IN  \/ Contains(upperLine, TodoMark)
        \/ Contains(upperLine, FixmeMark)
        \/ Contains(upperLine, HackMark)

When(cond, issue) == IF cond THEN <<issue>> ELSE <<>>

\* line 223
IsComment(line) == IsCommentLine(TrimSpace(line))

\* lines 225-238
CheckMockData(path, line, lineNum) ==
    When(AnyMatch(mockPatternRegexes, ToLower(line)),
         Issue(path, lineNum, RuleMockData, MsgMockData, "warning"))

\* lines 240-249
CheckPrint(path, line, lineNum) ==
    When(~IsComment(line) /\ printRe(line),
         Issue(path, lineNum, RuleBanPrint, MsgBanPrint, "info"))

\* lines 251-260
CheckConsoleLog(path, line, lineNum) ==
    When(~IsComment(line) /\ Contains(line, ConsoleLog),
         Issue(path, lineNum, RuleBanConsole, MsgBanConsole, "info"))

\* lines 262-271
CheckBareExcept(path, line, lineNum) ==
    When(~IsComment(line) /\ MatchString(bareExceptRe, line),
         Issue(path, lineNum, RuleBanExcept, MsgBanExcept, "warning"))

\* lines 274-295
CheckEval(path, line, lineNum) ==
    When(/\ ~IsComment(line)
         /\ evalRe(TrimSpace(line))
         /\ QuotesBalancedBefore(line, EvalWord),
         Issue(path, lineNum, RuleBanEval, MsgEval, "critical"))

\* lines 296-311
CheckExec(path, line, lineNum) ==
    When(/\ ~IsComment(line)
         /\ execRe(TrimSpace(line))
         /\ QuotesBalancedBefore(line, ExecWord),
         Issue(path, lineNum, RuleBanEval, MsgExec, "critical"))

\* lines 314-323
CheckStarImport(path, line, lineNum) ==
    When(~IsComment(line) /\ MatchString(starImportRe, line),
         Issue(path, lineNum, RuleBanStar, MsgBanStar, "warning"))

\* a todo check that, like the other rules, skips comment lines
CheckTodoMarkerSkippingComments(path, line, lineNum) ==
    When(~IsComment(line) /\ HasTodoMarker(line),
         Issue(path, lineNum, RuleTodoMarker, MsgTodoMarker, "info"))

\* lines 325-335: no test of isComment
CheckTodoMarker(path, line, lineNum) ==
    When(HasTodoMarker(line),
         Issue(path, lineNum, RuleTodoMarker, MsgTodoMarker, "info"))

\* lines 337-351
CheckDangerous(path, line, lineNum) ==
    When(~IsComment(line) /\ AnyMatch(dangerousPatternRegexes, line),
         Issue(path, lineNum, RuleDangerousCmd, MsgDangerousCmd, "critical"))

\* lines 353-367
CheckSecret(path, line, lineNum) ==
    When(~IsComment(line) /\ AnyMatch(secretPatternRegexes, line),
         Issue(path, lineNum, RuleSecretPattern, MsgSecretPattern, "critical"))

\* lines 369-378
CheckSqlInjection(path, line, lineNum) ==
    When(~IsComment(line) /\ AnyMatch(sqlInjectionRe, line),
         Issue(path, lineNum, RuleSqlInjection, MsgSqlInjection, "critical"))

\* a shell=True check that forgets the test of isComment
CheckSubprocessShellInComments(path, line, lineNum) ==
    When(Contains(line, ShellTrue),
         Issue(path, lineNum, RuleSubprocessShell, MsgSubprocessShell, "warning"))

\* lines 380-389
CheckSubprocessShell(path, line, lineNum) ==
    When(~IsComment(line) /\ Contains(line, ShellTrue),
         Issue(path, lineNum, RuleSubprocessShell, MsgSubprocessShell, "warning"))

\* lines 222-389: the findings of one line that is neither blank nor skipped,
\* in the order the checks are written
LineFindings(path, line, lineNum) ==
    CheckMockData(path, line, lineNum)
        \o CheckPrint(path, line, lineNum)
        \o CheckConsoleLog(path, line, lineNum)
        \o CheckBareExcept(path, line, lineNum)
        \o CheckEval(path, line, lineNum)
        \o CheckExec(path, line, lineNum)
        \o CheckStarImport(path, line, lineNum)
        \o CheckTodoMarker(path, line, lineNum)
        \o CheckDangerous(path, line, lineNum)
        \o CheckSecret(path, line, lineNum)
        \o CheckSqlInjection(path, line, lineNum)
        \o CheckSubprocessShell(path, line, lineNum)

\* an opening test that also sees a triple quote after other code
OpensDocstringAnywhere(trimmed) ==
    Contains(trimmed, TripleDouble) \/ Contains(trimmed, TripleSingle)

\* Whether a trimmed line opens a docstring (line 205)
OpensDocstring(trimmed) ==
    HasPrefix(trimmed, TripleDouble) \/ HasPrefix(trimmed, TripleSingle)

\* a line loop in which either triple quote closes a docstring
ScanLineAnyQuoteCloses(st, path, line, lineNum) ==
    LET trimmed == TrimSpace(line)
    IN  IF trimmed = <<>>
        THEN [inDocstring |-> st.inDocstring, docstringDelim |-> st.docstringDelim,
              found |-> <<>>]
        ELSE IF ~st.inDocstring
        THEN IF OpensDocstring(trimmed)
             THEN [inDocstring |-> ~Contains(Drop(trimmed, 3), Take(trimmed, 3)),
                   docstringDelim |-> Take(trimmed, 3),
                   found |-> <<>>]
             ELSE [inDocstring |-> FALSE, docstringDelim |-> st.docstringDelim,
                   found |-> LineFindings(path, line, lineNum)]
        ELSE [inDocstring |-> ~(\/ Contains(trimmed, TripleDouble)
                                \/ Contains(trimmed, TripleSingle)),
              docstringDelim |-> st.docstringDelim,
              found |-> <<>>]

\* lines 194-390: one iteration of the line loop.  st holds inDocstring and
\* docstringDelim; the result holds their new values and the findings added.
ScanLine(st, path, line, lineNum) ==
    LET trimmed == TrimSpace(line)
    IN  IF trimmed = <<>>
        THEN [inDocstring |-> st.inDocstring, docstringDelim |-> st.docstringDelim,
              found |-> <<>>]
        ELSE IF ~st.inDocstring
        THEN IF OpensDocstring(trimmed)
             THEN [inDocstring |-> ~Contains(Drop(trimmed, 3), Take(trimmed, 3)),
                   docstringDelim |-> Take(trimmed, 3),
                   found |-> <<>>]
             ELSE [inDocstring |-> FALSE, docstringDelim |-> st.docstringDelim,
                   found |-> LineFindings(path, line, lineNum)]
        ELSE [inDocstring |-> ~Contains(trimmed, st.docstringDelim),
              docstringDelim |-> st.docstringDelim,
              found |-> <<>>]

(***************************************************************************)
(* The files the scanner is run on                                         *)
(***************************************************************************)
\* the longest file built from DocLines, in lines
MaxLines ==
    4

\* how far the long files' line counts lie around MaxFileLines
BigSlack ==
    1

\* Lines that open, close or lie inside multi-line strings, and lines with
\* findings; the empty line gives files that end in a newline.
DocLines ==
    {<<"\"", "\"", "\"">>,
     <<"'", "'", "'">>,
     <<"T", "O", "D", "O", "\"", "\"", "\"">>,
     <<"m", "o", "c", "k", "_", " ", "=", " ", "e", "v", "a", "l", "(", "x", ")", " ", "#", " ", "T", "O", "D", "O">>,
     <<"\"", "\"", "\"", "T", "O", "D", "O", "\"", "\"", "\"">>,
     <<>>,
     <<"x", " ", "=", " ", "\"", "\"", "\"">>}

\* What precedes a construct on its line: nothing, code, a comment marker,
\* a closed or an open string literal, an escaped quote, an identifier ending
\* in eval, a trailing comment.
LinePrefixes ==
    {<<>>,
     <<"x", " ", "=", " ">>,
     <<"#", " ">>,
     <<"/", "/", " ">>,
     <<" ", " ">>,
     <<"s", " ", "=", " ", "\"", "a", "\"", " ", "+", " ">>,
     <<"s", " ", "=", " ", "\"", "a", " ">>,
     <<"s", " ", "=", " ", "'", "a", " ">>,
     <<"s", " ", "=", " ", "\"", "a", "\\", "\"", " ">>,
     <<"r", "e", "t", "r", "i", "e", "v", "a", "l", "(", "y", ")", ";", " ">>,
     <<"s", " ", "=", " ", "\"", "e", "v", "a", "l", "\"", " ", "+", " ">>,
     <<"x", " ", "=", " ", "1", " ", "#", " ">>,
     <<"s", " ", "=", " ", "\"", "i", "t", "'", "s", "\"", " ", "+", " ", "'", " ">>,
     <<"e", "x", "e", "c", "u", "t", "e", "(", "y", ")", ";", " ">>}

\* One construct per rule, and constructs no rule matches.
LineConstructs ==
    {<<"e", "v", "a", "l", "(", "z", ")">>,
     <<"e", "x", "e", "c", "(", "z", ")">>,
     <<"e", "v", "a", "l", " ", "(", "z", ")">>,
     <<"r", "e", "t", "r", "i", "e", "v", "a", "l", "(", "z", ")">>,
     <<"p", "r", "i", "n", "t", "(", "z", ")">>,
     <<"c", "o", "n", "s", "o", "l", "e", ".", "l", "o", "g", "(", "z", ")">>,
     <<"e", "x", "c", "e", "p", "t", ":">>,
     <<"f", "r", "o", "m", " ", "m", " ", "i", "m", "p", "o", "r", "t", " ", "*">>,
     <<"r", "m", " ", "-", "r", "f", " ", "/">>,
     <<"p", "a", "s", "s", "w", "o", "r", "d", " ", "=", " ", "\"", "p", "\"">>,
     <<"f", "\"", "S", "E", "L", "E", "C", "T", " ", "a", "\"">>,
     <<"s", "h", "e", "l", "l", "=", "T", "r", "u", "e">>,
     <<"T", "O", "D", "O">>,
     <<"m", "o", "c", "k", "_", "z">>,
     <<"z">>,
     <<>>}

\* What follows it.
LineSuffixes ==
    {<<>>,
     <<"\"">>,
     <<"'">>,
     <<" ", "#", " ", "f", "i", "x", "m", "e">>}

RichLines ==
    {a \o b \o c : a \in LinePrefixes, b \in LineConstructs, c \in LineSuffixes}

TestPath ==
    <<"t", "e", "s", "t", ".", "p", "y">>

EvalLine ==
    <<" ", "e", "v", "a", "l", "(", "z", ")">>

\* strings.Join(ls, "\n")
RECURSIVE Join(_)
Join(ls) ==
    IF Len(ls) = 0 THEN <<>>
    ELSE IF Len(ls) = 1 THEN ls[1]
    ELSE ls[1] \o <<NL>> \o Join(Tail(ls))

\* The sequences over S of length 1..n
SeqsUpTo(S, n) == UNION {[1..k -> S] : k \in 1..n}

DocFiles == {Join(ls) : ls \in SeqsUpTo(DocLines, MaxLines)}

RichFiles == RichLines

\* n lines "x", the last one without a newline
Xs(n) == [k \in 1..(2 * n - 1) |-> IF k % 2 = 1 THEN "x" ELSE NL]

BigFiles ==
    {Xs(n) \o tail :
        n \in (MaxFileLines - BigSlack)..(MaxFileLines + BigSlack),
        tail \in {<<>>, <<NL>>, <<NL>> \o EvalLine}}

FilePool == DocFiles \cup RichFiles \cup BigFiles

(***************************************************************************)
(* The directory tree and the external script's output                     *)
(***************************************************************************)
\* The characters in byte order, by which directory entries are sorted
ByteOrder ==
    <<"\t", "\r", " ", "!", "\"", "#", "'", "(", ")", "*", "+", ",", "-", ".",
      "/", "0", "1", "2", "3", "4", "5", "6", "7", "8", "9", ":", ";", "<",
      "=", ">", "@", "A", "B", "C", "D", "E", "F", "G", "H", "I", "J", "K",
      "L", "M", "N", "O", "P", "Q", "R", "S", "T", "U", "V", "W", "X", "Y",
      "Z", "[", "\\", "]", "_", "a", "b", "c", "d", "e", "f", "g", "h", "i",
      "j", "k", "l", "m", "n", "o", "p", "q", "r", "s", "t", "u", "v", "w",
      "x", "y", "z", "{", "}">>

\* lines 62-70
excludedDirs ==
    {<<".", "g", "i", "t">>,
     <<"n", "o", "d", "e", "_", "m", "o", "d", "u", "l", "e", "s">>,
     <<"_", "_", "p", "y", "c", "a", "c", "h", "e", "_", "_">>,
     <<".", "v", "e", "n", "v">>,
     <<"v", "e", "n", "v">>,
     <<".", "g", "u", "a", "r", "d", "i", "a", "n">>}

\* the four extensions and .txt
SupportedExtsAndTxt ==
    {<<".", "p", "y">>,
     <<".", "j", "s">>,
     <<".", "t", "s">>,
     <<".", "t", "s", "x">>,
     <<".", "t", "x", "t">>}

\* lines 146 and 495
SupportedExts ==
    {<<".", "p", "y">>,
     <<".", "j", "s">>,
     <<".", "t", "s">>,
     <<".", "t", "s", "x">>}

\* RunAll(".") and DryRun(".")
RootDir ==
    <<".">>

GuardianDir ==
    <<".", "g", "u", "a", "r", "d", "i", "a", "n">>

GuardianScript ==
    <<"g", "u", "a", "r", "d", "i", "a", "n", ".", "p", "y">>

\* directory names outside the exclusion list
OtherDirs ==
    {<<"s", "r", "c">>,
     <<"b", "u", "i", "l", "d">>}

\* names of a directory one level further down
InnerDirs ==
    {<<".", "g", "i", "t">>,
     <<"h", "o", "o", "k", "s">>,
     <<"v", "e", "n", "v">>}

ExtraDir ==
    <<"v", "e", "n", "v">>

TopFiles ==
    {<<"a", ".", "p", "y">>,
     <<"b", ".", "g", "o">>,
     <<"c", ".", "t", "s", "x">>}

MidFiles ==
    {<<"g", ".", "p", "y">>,
     <<"g", "u", "a", "r", "d", "i", "a", "n", ".", "p", "y">>,
     <<"g", ".", "t", "x", "t">>}

DeepFile ==
    <<"h", ".", "j", "s">>

FailWord ==
    <<"F", "A", "I", "L">>

\* a file with a finding of every line rule
RichText ==
    <<"p", "r", "i", "n", "t", "(", "z", ")", "\n", "c", "o", "n", "s", "o", "l", "e", ".", "l", "o", "g", "(", "z", ")", "\n", "e", "x", "c", "e", "p", "t", ":", "\n", "e", "x", "e", "c", "(", "z", ")", "\n", "f", "r", "o", "m", " ", "m", " ", "i", "m", "p", "o", "r", "t", " ", "*", "\n", "r", "m", " ", "-", "r", "f", " ", "/", "\n", "p", "a", "s", "s", "w", "o", "r", "d", " ", "=", " ", "\"", "p", "\"", "\n", "f", "\"", "S", "E", "L", "E", "C", "T", " ", "a", "\"", "\n", "s", "h", "e", "l", "l", "=", "T", "r", "u", "e", "\n", "#", " ", "T", "O", "D", "O", " ", "m", "o", "c", "k", "_", "z", "\n">>

\* file contents: two lines without a finding, and a call of eval
PlainText ==
    <<"x", "\n", "x", "\n">>

DangerText ==
    <<" ", "e", "v", "a", "l", "(", "z", ")">>

\* a file that ends inside a docstring it never closes
OpenDocText ==
    <<"#", " ", "T", "O", "D", "O", "\n", "\"", "\"", "\"", "\n", "x">>

\* bufio.MaxScanTokenSize, the size the buffer of a bufio.Scanner grows to
MaxScanTokenSize ==
    65536

\* a run of MaxScanTokenSize letters, held as one element of a string
LongRun == "x..."

\* Lines a guardian.py may print: both issue formats, with known and unknown
\* rule ids and various line numbers, lines that are no issue, and a line of
\* MaxScanTokenSize letters.
OutputLines ==
    {<<LongRun>>,
     <<"m", "a", "i", "n", ".", "p", "y", ":", "1", "0", " ", "[", "b", "a", "n", "-", "e", "v", "a", "l", "]", " ", "A", "v", "o", "i", "d", " ", "e", "v", "a", "l", "(", ")">>,
     <<"F", "A", "I", "L", " ", "a", ".", "p", "y", ":", "1", " ", "-", " ", "b", "a", "n", "-", "p", "r", "i", "n", "t", ":", " ", "m", "s", "g">>,
     <<"R", "u", "n", "n", "i", "n", "g", " ", "c", "h", "e", "c", "k", "s", ".", ".", ".">>,
     <<"a", ".", "p", "y", ":", "0", " ", "[", "f", "i", "l", "e", "-", "s", "i", "z", "e", "]", " ", "x">>,
     <<"a", ".", "p", "y", ":", "7", " ", "[", "c", "u", "s", "t", "o", "m", "-", "r", "u", "l", "e", "]", " ", "x", ":", "3", " ", "[", "y", "]", " ", "z">>,
     <<"[", "x", "]", " ", "n", "o", "t", " ", "a", "n", " ", "i", "s", "s", "u", "e">>}

\* the longest script output, in lines
MaxOutputLines ==
    2

\* the most entries of a walk that meet an error
MaxFailures ==
    1

(***************************************************************************)
(* path/filepath over a tree.  A tree maps each path, a sequence of entry  *)
(* names below the root, to [isDir, content]; <<>> is the root itself.     *)
(***************************************************************************)
Dir == [isDir |-> TRUE, content |-> <<>>]

File(text) == [isDir |-> FALSE, content |-> text]

\* the position of a character in byte order
Rank(c) == CHOOSE k \in 1..Len(ByteOrder) : ByteOrder[k] = c

\* a < b for Go strings
RECURSIVE NameLess(_, _)
NameLess(a, b) ==
    IF a = <<>> THEN b # <<>>
    ELSE IF b = <<>> THEN FALSE
    ELSE IF a[1] = b[1] THEN NameLess(Tail(a), Tail(b))
    ELSE Rank(a[1]) < Rank(b[1])

\* sort.Strings
RECURSIVE SortNames(_)
SortNames(S) ==
    IF S = {} THEN <<>>
    ELSE LET m == CHOOSE x \in S : \A y \in S \ {x} : NameLess(x, y)
         IN  <<m>> \o SortNames(S \ {m})

\* filepath.Walk's readDirNames: the names in a directory, sorted
readDirNames(tree, p) ==
    SortNames({q[Len(q)] : q \in {r \in DOMAIN tree :
                  Len(r) = Len(p) + 1 /\ SubSeq(r, 1, Len(p)) = p}})

\* filepath.Join(RootDir, names...): the names joined by "/", the root alone
\* for no names
RECURSIVE JoinPath(_)
JoinPath(p) ==
    IF p = <<>> THEN RootDir
    ELSE IF Len(p) = 1 THEN p[1]
    ELSE p[1] \o <<"/">> \o JoinPath(Tail(p))

\* os.FileInfo.Name(): the base name of the entry
BaseName(p) == IF p = <<>> THEN RootDir ELSE p[Len(p)]

\* filepath.Ext: the suffix from the last dot of the last element of the path
RECURSIVE Ext(_)
Ext(s) ==
    IF s = <<>> \/ s[Len(s)] = "/" THEN <<>>
    ELSE IF s[Len(s)] = "."
         THEN <<".">>
         ELSE LET e == Ext(Take(s, Len(s) - 1))
              IN  IF e = <<>> THEN <<>> ELSE e \o <<s[Len(s)]>>

\* filepath.Rel(RootDir, target) for a target the walk of RootDir produced
Rel(target) == IF target = RootDir THEN RootDir ELSE target

\* lines 139-143 and 485-490: the walk does not enter this entry
SkipsDirNever(tree, p) == FALSE

SkipsDir(tree, p) == tree[p].isDir /\ BaseName(p) \in excludedDirs

\* a filter that lets every extension through
SupportedAny(pathName) == TRUE

\* lines 146-149 and 493-497
Supported(pathName) == Ext(pathName) \in SupportedExts

(***************************************************************************)
(* checkFile as a whole: lines 161-393                                     *)
(***************************************************************************)
\* lines 194-390: the line loop from line k on, entered in scan state st:
\* the findings appended and the scan state the loop ends in
RECURSIVE ScanFrom(_, _, _, _)
ScanFrom(st, pathName, ls, k) ==
    IF k > Len(ls)
    THEN [found |-> <<>>, inDocstring |-> st.inDocstring,
          docstringDelim |-> st.docstringDelim]
    ELSE LET r == ScanLine(st, pathName, ls[k], k)
             rest == ScanFrom([inDocstring |-> r.inDocstring,
                               docstringDelim |-> r.docstringDelim],
                              pathName, ls, k + 1)
         IN  [rest EXCEPT !.found = r.found \o @]

\* a scan that starts in the state the scan before it ended in
ScanStartCarried(left) == left

\* lines 190-191: the locals of a call of checkFile, whatever state the call
\* before it ended in
ScanStart(left) == [inDocstring |-> FALSE, docstringDelim |-> <<>>]

\* the scan state of a process that has not called checkFile yet
NoScan == [inDocstring |-> FALSE, docstringDelim |-> <<>>]

\* lines 161-393, for a call made when the call before it ended in state
\* left: the findings returned and the scan state the call ends in
checkFileAfter(left, pathName, text) ==
    LET ls == Split(text)
        scan == ScanFrom(ScanStart(left), pathName, ls, 1)
    IN  [scan EXCEPT
            !.found = FileSizeIssues(pathName, LineCountOf(ls)) \o @]

\* lines 161-393, for the first call of a process
checkFile(pathName, text) == checkFileAfter(NoScan, pathName, text).found

(***************************************************************************)
(* parseGuardianOutput and parseIssueLine: lines 396-446                   *)
(***************************************************************************)
\* \s of the regexp package, within the characters of the model
ReSpace == {" ", "\t", "\r", NL}

\* the length of the longest prefix of s with all characters in cls
RECURSIVE Run(_, _)
Run(s, cls) ==
    IF s # <<>> /\ s[1] \in cls THEN 1 + Run(Tail(s), cls) ELSE 0

\* the length of the longest prefix of s without the character c
RECURSIVE RunNot(_, _)
RunNot(s, c) ==
    IF s # <<>> /\ s[1] # c THEN 1 + RunNot(Tail(s), c) ELSE 0

\* strconv.Atoi of a string of digits (within the range of int)
RECURSIVE Atoi(_)
Atoi(d) ==
    IF d = <<>> THEN 0
    ELSE 10 * Atoi(Take(d, Len(d) - 1))
             + (CHOOSE v \in 0..9 : Itoa(v) = <<d[Len(d)]>>)

NoMatch == [ok |-> FALSE]

\* \s+(\S+) : a last group that ends at the first space
SpacesThenWord(s) ==
    LET w == Run(s, ReSpace)
        rest == Drop(s, w)
    IN  IF w = 0 \/ rest = <<>> THEN NoMatch
        ELSE [ok |-> TRUE, text |-> Take(rest, RunNot(rest, " "))]

\* \s+(.+)$ : the greedy spaces leave the last group at least one character
SpacesThenRest(s) ==
    LET w == Run(s, ReSpace)
    IN  IF w = 0 \/ Len(s) < 2 THEN NoMatch
        ELSE IF w = Len(s) THEN [ok |-> TRUE, text |-> Drop(s, w - 1)]
        ELSE [ok |-> TRUE, text |-> Drop(s, w)]

\* \]\s+(.+)$ : the end of issueFormatRe, after the rule
IssueMessage(num, rule, s) ==
    IF /\ rule # <<>>
       /\ s # <<>> /\ s[1] = "]"
       /\ SpacesThenRest(Tail(s)).ok
    THEN [ok |-> TRUE, num |-> num, rule |-> rule,
          message |-> SpacesThenRest(Tail(s)).text]
    ELSE NoMatch

\* \s+\[([^\]]+) and the rest: issueFormatRe after the line number
IssueRule(num, s) ==
    LET b == Drop(s, Run(s, ReSpace))
    IN  IF Run(s, ReSpace) > 0 /\ b # <<>> /\ b[1] = "["
        THEN IssueMessage(num, Take(Tail(b), RunNot(Tail(b), "]")),
                          Drop(Tail(b), RunNot(Tail(b), "]")))
        ELSE NoMatch

\* (\d+)\s+\[([^\]]+)\]\s+(.+)$ : what follows the colon in issueFormatRe
IssueTail(s) ==
    IF Run(s, Digits) > 0
    THEN IssueRule(Take(s, Run(s, Digits)), Drop(s, Run(s, Digits)))
    ELSE NoMatch

\* line 59: ^(.+):(\d+)\s+\[([^\]]+)\]\s+(.+)$ ; the greedy first group ends
\* at the last colon after which the rest of the pattern matches
issueFormatRe(s) ==
    LET good == {p \in 2..Len(s) : s[p] = ":" /\ IssueTail(Drop(s, p)).ok}
    IN  IF good = {} THEN NoMatch
        ELSE LET p == CHOOSE x \in good : \A y \in good : x >= y
                 t == IssueTail(Drop(s, p))
             IN  [ok |-> TRUE, file |-> Take(s, p - 1), num |-> t.num,
                  rule |-> t.rule, message |-> t.message]

\* :\s+(.+)$ : the end of failFormatRe, after the rule
FailMessage(num, rule, s) ==
    IF /\ rule # <<>>
       /\ s # <<>> /\ s[1] = ":"
       /\ SpacesThenRest(Tail(s)).ok
    THEN [ok |-> TRUE, num |-> num, rule |-> rule,
          message |-> SpacesThenRest(Tail(s)).text]
    ELSE NoMatch

\* \s+([^:]+) and the rest: failFormatRe after the dash; the greedy spaces
\* leave the rule at least one character
FailRule(num, s) ==
    LET w == Run(s, ReSpace)
        ws == IF RunNot(Drop(s, w), ":") = 0 THEN w - 1 ELSE w
    IN  IF ws > 0
        THEN FailMessage(num, Take(Drop(s, ws), RunNot(Drop(s, ws), ":")),
                         Drop(Drop(s, ws), RunNot(Drop(s, ws), ":")))
        ELSE NoMatch

\* \s+- and the rest: failFormatRe after the line number
FailDash(num, s) ==
    LET b == Drop(s, Run(s, ReSpace))
    IN  IF Run(s, ReSpace) > 0 /\ b # <<>> /\ b[1] = "-"
        THEN FailRule(num, Tail(b))
        ELSE NoMatch

\* (\d+)\s+-\s+([^:]+):\s+(.+)$ : what follows the colon in failFormatRe
FailTail(s) ==
    IF Run(s, Digits) > 0
    THEN FailDash(Take(s, Run(s, Digits)), Drop(s, Run(s, Digits)))
    ELSE NoMatch

\* line 60: ^FAIL\s+(.+):(\d+)\s+-\s+([^:]+):\s+(.+)$ ; the spaces after FAIL
\* take as many as a match allows, then the first group as much as it allows
failFormatRe(s) ==
    IF ~HasPrefix(s, FailWord) THEN NoMatch
    ELSE LET r == Drop(s, Len(FailWord))
             w == Run(r, ReSpace)
             cand == {x \in (1..w) \X (1..Len(r)) :
                         /\ x[2] >= x[1] + 2
                         /\ r[x[2]] = ":"
                         /\ FailTail(Drop(r, x[2])).ok}
         IN  IF cand = {} THEN NoMatch
             ELSE LET best == CHOOSE x \in cand : \A y \in cand :
                                  \/ x[1] > y[1]
                                  \/ x[1] = y[1] /\ x[2] >= y[2]
                      t == FailTail(Drop(r, best[2]))
                  IN  [ok |-> TRUE,
                       file |-> SubSeq(r, best[1] + 1, best[2] - 1),
                       num |-> t.num, rule |-> t.rule, message |-> t.message]

\* Issue{}
NoIssue == Issue(<<>>, 0, <<>>, <<>>, "")

\* lines 416-446
parseIssueLine(line) ==
    LET m1 == issueFormatRe(line)
        m2 == failFormatRe(line)
    IN  IF m1.ok
        THEN Issue(m1.file, Atoi(m1.num), m1.rule, m1.message,
                   getSeverity(m1.rule))
        ELSE IF m2.ok
        THEN Issue(m2.file, Atoi(m2.num), m2.rule, m2.message,
                   getSeverity(m2.rule))
        ELSE NoIssue

\* len(s) in bytes
RECURSIVE ByteLen(_)
ByteLen(s) ==
    IF s = <<>> THEN 0
    ELSE (IF s[1] = LongRun THEN MaxScanTokenSize ELSE 1) + ByteLen(Tail(s))

\* bufio.Scanner.Scan: the scanner stops, with ErrTooLong, at the first line
\* that fills the buffer before its newline is found; the lines before it
\* have been delivered
ScannedLines(ls) ==
    LET fit == {k \in 0..Len(ls) :
                   \A j \in 1..k : ByteLen(ls[j]) < MaxScanTokenSize}
    IN  Take(ls, CHOOSE k \in fit : \A j \in fit : j <= k)

\* bufio.ScanLines: the lines of the text, each without its newline and
\* without a carriage return before it; the text after the last newline is a
\* line unless it is empty
ScanLines(text) ==
    LET all == Split(text)
        n == IF all[Len(all)] = <<>> THEN Len(all) - 1 ELSE Len(all)
        ls == ScannedLines(Take(all, n))
    IN  [k \in 1..Len(ls) |->
            IF ls[k] # <<>> /\ ls[k][Len(ls[k])] = "\r"
            THEN Take(ls[k], Len(ls[k]) - 1)
            ELSE ls[k]]

\* lines 400-411: the scanner loop from line k on
RECURSIVE ParseFrom(_, _)
ParseFrom(ls, k) ==
    IF k > Len(ls) THEN <<>>
    ELSE LET line == ls[k]
             issue == parseIssueLine(line)
         IN  (IF /\ HasPrefix(line, FailWord) \/ Contains(line, <<"[">>)
                 /\ issue.File # <<>>
              THEN <<issue>>
              ELSE <<>>) \o ParseFrom(ls, k + 1)

\* lines 396-414; the error the scanner stopped with is not looked at
parseGuardianOutput(output) == ParseFrom(ScanLines(output), 1)

(***************************************************************************)
(* The trees and the script outputs the operations are run on              *)
(***************************************************************************)
\* A tree: a directory d1 at the root that holds a file f1 and a directory d2
\* with a file in it, a file top at the root, and, with more, a second
\* directory at the root that bears an excluded name.
Tree(d1, d2, f1, top, c1, c2, c3, more) ==
    LET entries == {<< <<>>, Dir >>,
                    << <<d1>>, Dir >>,
                    << <<d1, d2>>, Dir >>,
                    << <<d1, d2, DeepFile>>, File(c1) >>,
                    << <<d1, f1>>, File(c2) >>,
                    << <<top>>, File(c3) >>}
                   \cup (IF more THEN {<< <<ExtraDir>>, Dir >>} ELSE {})
    IN  [p \in {e[1] : e \in entries} |->
            (CHOOSE e \in entries : e[1] = p)[2]]

TreePool ==
    {Tree(d1, d2, f1, top, c1, c2, c3, more) :
        d1 \in excludedDirs \cup OtherDirs, d2 \in InnerDirs, f1 \in MidFiles,
        top \in TopFiles, c1 \in {DangerText},
        c2 \in {PlainText, DangerText},
        c3 \in {PlainText, DangerText, RichText, OpenDocText},
        more \in BOOLEAN}

\* the script's output: up to MaxOutputLines lines, each ended by a newline
OutputPool ==
    {<<>>} \cup
    {Join(ls) \o <<NL>> : ls \in SeqsUpTo(OutputLines, MaxOutputLines)}

(***************************************************************************)
(* config.go: the configuration file guardian_config.toml                  *)
(***************************************************************************)
\* line 102
ConfigName ==
    <<"g", "u", "a", "r", "d", "i", "a", "n", "_", "c", "o", "n", "f", "i", "g", ".", "t", "o", "m", "l">>

\* the key of LimitsConfig.MaxFileLines, line 26
MaxFileLinesKey ==
    <<"m", "a", "x", "_", "f", "i", "l", "e", "_", "l", "i", "n", "e", "s">>

\* lines 52-98, the limits: DefaultConfig()
DefaultConfig == [Limits |-> [MaxFileLines |-> 500, MaxFunctionLines |-> 50]]

\* the value of the first line `key = digits` of the text, <<>> without one
RECURSIVE KeyValue(_, _)
KeyValue(ls, key) ==
    IF ls = <<>> THEN <<>>
    ELSE LET line == TrimSpace(ls[1])
             rest == TrimSpace(Drop(line, Len(key)))
             digits == TrimSpace(Drop(rest, 1))
         IN  IF /\ HasPrefix(line, key)
                /\ HasPrefix(rest, <<"=">>)
                /\ digits # <<>>
                /\ Run(digits, Digits) = Len(digits)
             THEN digits
             ELSE KeyValue(Tail(ls), key)

\* line 113, toml.Unmarshal into the defaults: a key that is present
\* replaces the default value
Unmarshal(text, config) ==
    LET v == KeyValue(Split(text), MaxFileLinesKey)
    IN  IF v = <<>> THEN config
        ELSE [config EXCEPT !.Limits.MaxFileLines = Atoi(v)]

\* lines 101-119: Load(dir), for a file that can be read and parsed
Load(tree) ==
    IF <<ConfigName>> \notin DOMAIN tree THEN DefaultConfig
    ELSE Unmarshal(tree[<<ConfigName>>].content, DefaultConfig)

\* a configuration file that sets max_file_lines to 2
ConfigText ==
    <<"[", "l", "i", "m", "i", "t", "s", "]", "\n", "m", "a", "x", "_", "f", "i", "l", "e", "_", "l", "i", "n", "e", "s", " ", "=", " ", "2", "\n", "m", "a", "x", "_", "f", "u", "n", "c", "t", "i", "o", "n", "_", "l", "i", "n", "e", "s", " ", "=", " ", "5", "0", "\n">>

\* the files scanned under that configuration: one to MaxLines lines of x
ConfiguredFiles == {Xs(n) \o <<NL>> : n \in 1..MaxLines}

(***************************************************************************)
(* State                                                                   *)
(***************************************************************************)
VARIABLES
    pc,              \* where the operation stands
    path,            \* checkFile's argument
    content,         \* the bytes os.ReadFile returns for path
    lines,           \* checkFile: strings.Split(content, "\n")
    lineCount,       \* checkFile: the corrected line count
    idx,             \* checkFile: lines scanned so far (the loop's i)
    inDocstring,     \* checkFile: inside a multi-line string
    docstringDelim,  \* checkFile: the delimiter that opened it
    issues,          \* the findings collected so far
    op,              \* the operation that runs
    fs,              \* the directory tree it runs on
    todo,            \* filepath.Walk: the entries still to visit, in order
    output,          \* RunAll: what the external script printed
    info,            \* DryRun: the DryRunInfo under construction
    failed,          \* the entries whose walk step met an error
    handed,          \* runBuiltinChecks: the files handed to checkFile
    printed,         \* the report: the file groups in the order presented
    counts,          \* the report: the critical, warning and info totals
    exitCode,        \* runCheck: the status the process exits with
    language,        \* Install, generatePreCommitConfig: config.Language
    fsBefore,        \* the files there were before the call
    createdDir,      \* Install: whether this call creates .guardian
    calls,           \* the calls of generatePreCommitConfig made
    err,             \* the error returned: "nil" or "error"; "none" before
    model,           \* the interactive screen: the InteractiveModel the program holds
    msgs             \* the interactive screen: the messages of commands still running

vars ==
    <<pc, path, content, lines, lineCount, idx, inDocstring, docstringDelim,
      issues, op, fs, todo, output, info, failed, handed, printed, counts,
      exitCode,
      language, fsBefore, createdDir, calls, err,
      model, msgs>>

\* what checkFile works with, and what the operations on a tree work with
fileVars == <<path, content, lines, lineCount, idx, inDocstring, docstringDelim>>

treeVars ==
    <<op, fs, todo, output, info, failed, handed, printed, counts, exitCode>>

reportVars == <<printed, counts, exitCode>>

scaffoldVars == <<language, fsBefore, createdDir, calls, err>>

screenVars == <<model, msgs>>

\* line 81 of runCheck: critical, warnings, info := 0, 0, 0
NoCounts == [critical |-> 0, warnings |-> 0, info |-> 0]

\* DryRunInfo{Excluded: []string{}}
EmptyInfo == [Files |-> <<>>, Excluded |-> <<>>, FileCount |-> 0, TotalLines |-> 0]

(***************************************************************************)
(* checkFile, one step per iteration of its line loop                      *)
(***************************************************************************)
FileInit ==
    /\ pc = "start"
    /\ path = TestPath
    /\ content \in FilePool \cup ConfiguredFiles
    /\ lines = <<>>
    /\ lineCount = 0
    /\ idx = 0
    /\ inDocstring = FALSE
    /\ docstringDelim = <<>>
    /\ issues = <<>>
    /\ op = "checkFile"
    /\ \E cfg \in {<<>>} \cup (IF content \in ConfiguredFiles
                                 THEN {ConfigText} ELSE {}) :
           fs = [p \in {<<>>, <<TestPath>>}
                           \cup (IF cfg = <<>> THEN {} ELSE {<<ConfigName>>}) |->
                    IF p = <<>> THEN Dir
                    ELSE IF p = <<TestPath>> THEN File(content)
                    ELSE File(cfg)]
    /\ todo = <<>>
    /\ output = <<>>
    /\ info = EmptyInfo
    /\ failed = {}
    /\ handed = <<>>
    /\ printed = <<>>
    /\ counts = NoCounts
    /\ exitCode = 0
    /\ language = "python"
    /\ fsBefore = <<>>
    /\ createdDir = FALSE
    /\ calls = 0
    /\ err = "none"
    /\ model = <<>>
    /\ msgs = <<>>

\* lines 164-167: the file cannot be read
ReadFileError ==
    /\ pc = "start"
    /\ pc' = "readError"
    /\ UNCHANGED <<path, content, lines, lineCount, idx, inDocstring,
                   docstringDelim, issues>>
    /\ UNCHANGED treeVars
    /\ UNCHANGED scaffoldVars
    /\ UNCHANGED screenVars

\* lines 164-191: read, split, count, file-size check, fresh scan state
ReadFile ==
    /\ pc = "start"
    /\ LET ls == Split(content)
           n == LineCountOf(ls)
       IN  /\ lines' = ls
           /\ lineCount' = n
           /\ issues' = FileSizeIssues(path, n)
    /\ idx' = 0
    /\ inDocstring' = FALSE
    /\ docstringDelim' = <<>>
    /\ pc' = "loop"
    /\ UNCHANGED <<path, content>>
    /\ UNCHANGED treeVars
    /\ UNCHANGED scaffoldVars
    /\ UNCHANGED screenVars

\* lines 194-390: one iteration
ScanStep ==
    /\ pc = "loop"
    /\ idx < Len(lines)
    /\ LET r == ScanLine([inDocstring |-> inDocstring,
                          docstringDelim |-> docstringDelim],
                         path, lines[idx + 1], idx + 1)
       IN  /\ inDocstring' = r.inDocstring
           /\ docstringDelim' = r.docstringDelim
           /\ issues' = issues \o r.found
    /\ idx' = idx + 1
    /\ UNCHANGED <<pc, path, content, lines, lineCount>>
    /\ UNCHANGED treeVars
    /\ UNCHANGED scaffoldVars
    /\ UNCHANGED screenVars

\* line 392
ReturnIssues ==
    /\ pc = "loop"
    /\ idx = Len(lines)
    /\ pc' = "done"
    /\ UNCHANGED <<path, content, lines, lineCount, idx, inDocstring,
                   docstringDelim, issues>>
    /\ UNCHANGED treeVars
    /\ UNCHANGED scaffoldVars
    /\ UNCHANGED screenVars

FileNext == ReadFileError \/ ReadFile \/ ScanStep \/ ReturnIssues

SpecFile == FileInit /\ [][FileNext]_vars

(***************************************************************************)
(* RunAll and DryRun on a tree, one step per call of the walk function     *)
(***************************************************************************)
Init ==
    /\ pc = "start"
    /\ op \in {"RunAll", "DryRun"}
    /\ fs \in TreePool
    /\ todo = <<>>
    /\ output = <<>>
    /\ info = EmptyInfo
    /\ failed = {}
    /\ handed = <<>>
    /\ printed = <<>>
    /\ counts = NoCounts
    /\ exitCode = 0
    /\ issues = <<>>
    /\ path = <<>>
    /\ content = <<>>
    /\ lines = <<>>
    /\ lineCount = 0
    /\ idx = 0
    /\ inDocstring = FALSE
    /\ docstringDelim = <<>>
    /\ language = "python"
    /\ fsBefore = <<>>
    /\ createdDir = FALSE
    /\ calls = 0
    /\ err = "none"
    /\ model = <<>>
    /\ msgs = <<>>

\* lines 100-106: without a guardian.py the built-in checks run
RunAllStat ==
    /\ pc = "start"
    /\ op = "RunAll"
    /\ IF <<GuardianDir, GuardianScript>> \in DOMAIN fs
       THEN pc' = "script" /\ todo' = todo
       ELSE pc' = "walk" /\ todo' = << <<>> >>
    /\ UNCHANGED <<issues, op, fs, output, info>>
    /\ UNCHANGED fileVars
    /\ UNCHANGED <<failed, handed, printed, counts, exitCode>>
    /\ UNCHANGED scaffoldVars
    /\ UNCHANGED screenVars

\* lines 109-118: the script cannot be run or exits with an error
ScriptFails ==
    /\ pc = "script"
    /\ pc' = "walk"
    /\ todo' = << <<>> >>
    /\ UNCHANGED <<issues, op, fs, output, info>>
    /\ UNCHANGED fileVars
    /\ UNCHANGED <<failed, handed, printed, counts, exitCode>>
    /\ UNCHANGED scaffoldVars
    /\ UNCHANGED screenVars

\* lines 109-123: the script runs, and its output is parsed
ScriptSucceeds ==
    /\ pc = "script"
    /\ \E out \in OutputPool :
           /\ output' = out
           /\ issues' = issues \o parseGuardianOutput(out)
    /\ pc' = "parsed"
    /\ UNCHANGED <<op, fs, todo, info>>
    /\ UNCHANGED fileVars
    /\ UNCHANGED <<failed, handed, printed, counts, exitCode>>
    /\ UNCHANGED scaffoldVars
    /\ UNCHANGED screenVars

\* lines 475-479
DryRunStart ==
    /\ pc = "start"
    /\ op = "DryRun"
    /\ pc' = "walk"
    /\ todo' = << <<>> >>
    /\ info' = EmptyInfo
    /\ UNCHANGED <<issues, op, fs, output>>
    /\ UNCHANGED fileVars
    /\ UNCHANGED <<failed, handed, printed, counts, exitCode>>
    /\ UNCHANGED scaffoldVars
    /\ UNCHANGED screenVars

\* the entries filepath.Walk visits after the entry p: those of p when the
\* walk function lets it enter a directory, then the ones that were waiting
Descend(p, enter) ==
    (IF enter THEN [k \in 1..Len(readDirNames(fs, p)) |->
                       p \o <<readDirNames(fs, p)[k]>>]
              ELSE <<>>) \o Tail(todo)

\* a walk function that hands the error to filepath.Walk, which ends the walk
WalkErrorAborts ==
    /\ pc = "walk"
    /\ todo # <<>>
    /\ Cardinality(failed) < MaxFailures
    /\ todo' = <<>>
    /\ failed' = failed \cup {todo[1]}
    /\ UNCHANGED <<pc, issues, op, fs, output, info>>
    /\ UNCHANGED fileVars
    /\ UNCHANGED reportVars
    /\ UNCHANGED handed
    /\ UNCHANGED scaffoldVars
    /\ UNCHANGED screenVars

\* lines 132-134 and 480-482, lines 164-167 and 499-502: the entry cannot be
\* listed or read; nothing is recorded for it and the walk goes on
WalkError ==
    /\ pc = "walk"
    /\ todo # <<>>
    /\ Cardinality(failed) < MaxFailures
    /\ todo' = Tail(todo)
    /\ failed' = failed \cup {todo[1]}
    /\ UNCHANGED <<pc, issues, op, fs, output, info>>
    /\ UNCHANGED fileVars
    /\ UNCHANGED reportVars
    /\ UNCHANGED handed
    /\ UNCHANGED scaffoldVars
    /\ UNCHANGED screenVars

\* lines 131-155: the walk function of runBuiltinChecks
BuiltinVisit ==
    /\ pc = "walk"
    /\ op = "RunAll"
    /\ todo # <<>>
    /\ LET p == todo[1]
           left == [inDocstring |-> inDocstring,
                    docstringDelim |-> docstringDelim]
       IN  IF fs[p].isDir
           THEN /\ todo' = Descend(p, ~SkipsDir(fs, p))
                /\ UNCHANGED <<issues, inDocstring, docstringDelim, handed>>
           ELSE /\ todo' = Tail(todo)
                /\ IF Supported(JoinPath(p))
                   THEN \E scan \in {checkFileAfter(left, JoinPath(p),
                                                     fs[p].content)} :
                            /\ issues' = issues \o scan.found
                            /\ inDocstring' = scan.inDocstring
                            /\ docstringDelim' = scan.docstringDelim
                            /\ handed' = Append(handed, p)
                   ELSE UNCHANGED <<issues, inDocstring, docstringDelim,
                                    handed>>
    /\ UNCHANGED <<pc, op, fs, output, info>>
    /\ UNCHANGED <<path, content, lines, lineCount, idx>>
    /\ UNCHANGED <<failed, printed, counts, exitCode>>
    /\ UNCHANGED scaffoldVars
    /\ UNCHANGED screenVars

\* line 157
BuiltinReturn ==
    /\ pc = "walk"
    /\ op = "RunAll"
    /\ todo = <<>>
    /\ pc' = "returned"
    /\ UNCHANGED <<issues, op, fs, todo, output, info>>
    /\ UNCHANGED fileVars
    /\ UNCHANGED <<failed, handed, printed, counts, exitCode>>
    /\ UNCHANGED scaffoldVars
    /\ UNCHANGED screenVars

\* lines 479-521: the walk function of DryRun
DryRunVisit ==
    /\ pc = "walk"
    /\ op = "DryRun"
    /\ todo # <<>>
    /\ LET p == todo[1]
           n == DryRunLineCount(fs[p].content)
       IN  IF fs[p].isDir
           THEN /\ todo' = Descend(p, ~SkipsDir(fs, p))
                /\ info' = IF SkipsDir(fs, p)
                           THEN [info EXCEPT !.Excluded =
                                    @ \o <<BaseName(p) \o <<"/">> >>]
                           ELSE info
           ELSE /\ todo' = Tail(todo)
                /\ info' = IF Supported(JoinPath(p))
                           THEN [info EXCEPT
                                    !.Files = @ \o <<[Path |-> Rel(JoinPath(p)),
                                                      Lines |-> n]>>,
                                    !.FileCount = @ + 1,
                                    !.TotalLines = @ + n]
                           ELSE info
    /\ UNCHANGED <<pc, issues, op, fs, output>>
    /\ UNCHANGED fileVars
    /\ UNCHANGED <<failed, handed, printed, counts, exitCode>>
    /\ UNCHANGED scaffoldVars
    /\ UNCHANGED screenVars

\* a list that keeps every occurrence
UniqueKeepsAll(es) == es

\* lines 523-531: the first occurrence of each element, in order
RECURSIVE Unique(_)
Unique(es) ==
    IF es = <<>> THEN <<>>
    ELSE LET front == Unique(Take(es, Len(es) - 1))
             e == es[Len(es)]
         IN  IF \E k \in 1..Len(front) : front[k] = e
             THEN front
             ELSE front \o <<e>>

\* lines 523-534
DryRunReturn ==
    /\ pc = "walk"
    /\ op = "DryRun"
    /\ todo = <<>>
    /\ info' = [info EXCEPT !.Excluded = Unique(@)]
    /\ pc' = "returned"
    /\ UNCHANGED <<issues, op, fs, todo, output>>
    /\ UNCHANGED fileVars
    /\ UNCHANGED <<failed, handed, printed, counts, exitCode>>
    /\ UNCHANGED scaffoldVars
    /\ UNCHANGED screenVars

(***************************************************************************)
(* Reporting: runCheck of the check command and viewResults of the         *)
(* interactive screen                                                      *)
(***************************************************************************)
\* a grouping that keeps one finding for each file
GroupByFileLast(list) ==
    [f \in {list[k].File : k \in 1..Len(list)} |->
        <<list[CHOOSE k \in 1..Len(list) :
                 /\ list[k].File = f
                 /\ \A j \in (k + 1)..Len(list) : list[j].File # f]>>]

\* lines 75-78: the map from each file to its findings, each appended in
\* the order of the list
GroupByFile(list) ==
    [f \in {list[k].File : k \in 1..Len(list)} |->
        SelectSeq(list, LAMBDA i : i.File = f)]

\* the orders a range over a map with these keys can take
MapOrders(keys) ==
    {o \in [1..Cardinality(keys) -> keys] :
        \A a, b \in 1..Cardinality(keys) : a # b => o[a] # o[b]}

\* lines 82-83: the groups of the map in the order the range yields them
GroupsIn(fileIssues, order) ==
    [k \in 1..Len(order) |->
        [File |-> order[k], Issues |-> fileIssues[order[k]]]]

\* the findings of the groups, one group after the other
RECURSIVE Flatten(_)
Flatten(groups) ==
    IF groups = <<>> THEN <<>>
    ELSE groups[1].Issues \o Flatten(Tail(groups))

\* lines 86-97: the number of findings of the list in each tier; a severity
\* that is neither critical nor warning counts as info
CountSeverity(list) ==
    [critical |-> Len(SelectSeq(list, LAMBDA i : i.Severity = "critical")),
     warnings |-> Len(SelectSeq(list, LAMBDA i : i.Severity = "warning")),
     info     |-> Len(SelectSeq(list,
                      LAMBDA i : i.Severity \notin {"critical", "warning"}))]

\* an exit status that is 1 for findings of any tier
ExitCodeAny(cs) ==
    IF cs.critical + cs.warnings + cs.info > 0 THEN 1 ELSE 0

\* lines 132-134: os.Exit(1) for a critical finding, the return of main
\* otherwise
ExitCodeOf(cs) == IF cs.critical > 0 THEN 1 ELSE 0

\* runCheck, lines 69-135, on the findings RunAll returned
RunCheck ==
    /\ pc \in {"returned", "parsed"}
    /\ op = "RunAll"
    /\ IF Len(issues) = 0
       THEN /\ printed' = <<>>
            /\ counts' = NoCounts
            /\ exitCode' = 0
       ELSE \E order \in MapOrders(DOMAIN GroupByFile(issues)) :
                LET groups == GroupsIn(GroupByFile(issues), order)
                IN  /\ printed' = groups
                    /\ counts' = CountSeverity(Flatten(groups))
                    /\ exitCode' = ExitCodeOf(CountSeverity(Flatten(groups)))
    /\ pc' = "exited"
    /\ UNCHANGED <<issues, op, fs, todo, output, info, failed, handed>>
    /\ UNCHANGED fileVars
    /\ UNCHANGED scaffoldVars
    /\ UNCHANGED screenVars

\* viewResults, interactive.go lines 326-400, on the findings of the last
\* check; the screen is rendered anew for every update
ViewResults ==
    /\ pc \in {"returned", "parsed", "results"}
    /\ op = "RunAll"
    /\ IF Len(issues) = 0
       THEN /\ printed' = <<>>
            /\ counts' = NoCounts
       ELSE \E order \in MapOrders(DOMAIN GroupByFile(issues)) :
                /\ printed' = GroupsIn(GroupByFile(issues), order)
                /\ counts' = CountSeverity(issues)
    /\ pc' = "results"
    /\ UNCHANGED <<issues, op, fs, todo, output, info, failed, handed,
                   exitCode>>
    /\ UNCHANGED fileVars
    /\ UNCHANGED scaffoldVars
    /\ UNCHANGED screenVars

Next ==
    \/ RunAllStat
    \/ ScriptFails
    \/ ScriptSucceeds
    \/ DryRunStart
    \/ WalkError
    \/ BuiltinVisit
    \/ BuiltinReturn
    \/ DryRunVisit
    \/ DryRunReturn
    \/ RunCheck
    \/ ViewResults

Spec == Init /\ [][Next]_vars

(***************************************************************************)
(* Scaffolding: Install and generatePreCommitConfig of copy.go             *)
(***************************************************************************)
PreCommitName ==
    <<".", "p", "r", "e", "-", "c", "o", "m", "m", "i", "t", "-", "c", "o", "n", "f", "i", "g", ".", "y", "a", "m", "l">>

\* line 282
GuardianWord ==
    <<"g", "u", "a", "r", "d", "i", "a", "n">>

\* line 363
ReposKey ==
    <<"r", "e", "p", "o", "s", ":">>

\* lines 289-335
PythonHook ==
    <<"\n", " ", " ", "-", " ", "r", "e", "p", "o", ":", " ", "l", "o", "c", "a", "l", "\n", " ", " ", " ", " ", "h", "o", "o", "k", "s", ":", "\n", " ", " ", " ", " ", " ", " ", "-", " ", "i", "d", ":", " ", "g", "u", "a", "r", "d", "i", "a", "n", "-", "f", "i", "l", "e", "-", "s", "i", "z", "e", "\n", " ", " ", " ", " ", " ", " ", " ", " ", "n", "a", "m", "e", ":", " ", "C", "h", "e", "c", "k", " ", "f", "i", "l", "e", " ", "s", "i", "z", "e", "\n", " ", " ", " ", " ", " ", " ", " ", " ", "e", "n", "t", "r", "y", ":", " ", "p", "y", "t", "h", "o", "n", " ", ".", "g", "u", "a", "r", "d", "i", "a", "n", "/", "c", "h", "e", "c", "k", "_", "f", "i", "l", "e", "_", "s", "i", "z", "e", ".", "p", "y", "\n", " ", " ", " ", " ", " ", " ", " ", " ", "l", "a", "n", "g", "u", "a", "g", "e", ":", " ", "p", "y", "t", "h", "o", "n", "\n", " ", " ", " ", " ", " ", " ", " ", " ", "t", "y", "p", "e", "s", ":", " ", "[", "p", "y", "t", "h", "o", "n", "]", "\n", " ", " ", " ", " ", " ", " ", "-", " ", "i", "d", ":", " ", "g", "u", "a", "r", "d", "i", "a", "n", "-", "f", "u", "n", "c", "t", "i", "o", "n", "-", "s", "i", "z", "e", "\n", " ", " ", " ", " ", " ", " ", " ", " ", "n", "a", "m", "e", ":", " ", "C", "h", "e", "c", "k", " ", "f", "u", "n", "c", "t", "i", "o", "n", " ", "s", "i", "z", "e", "\n", " ", " ", " ", " ", " ", " ", " ", " ", "e", "n", "t", "r", "y", ":", " ", "p", "y", "t", "h", "o", "n", " ", ".", "g", "u", "a", "r", "d", "i", "a", "n", "/", "c", "h", "e", "c", "k", "_", "f", "u", "n", "c", "t", "i", "o", "n", "_", "s", "i", "z", "e", ".", "p", "y", "\n", " ", " ", " ", " ", " ", " ", " ", " ", "l", "a", "n", "g", "u", "a", "g", "e", ":", " ", "p", "y", "t", "h", "o", "n", "\n", " ", " ", " ", " ", " ", " ", " ", " ", "t", "y", "p", "e", "s", ":", " ", "[", "p", "y", "t", "h", "o", "n", "]", "\n", " ", " ", " ", " ", " ", " ", "-", " ", "i", "d", ":", " ", "g", "u", "a", "r", "d", "i", "a", "n", "-", "d", "a", "n", "g", "e", "r", "o", "u", "s", "\n", " ", " ", " ", " ", " ", " ", " ", " ", "n", "a", "m", "e", ":", " ", "C", "h", "e", "c", "k", " ", "d", "a", "n", "g", "e", "r", "o", "u", "s", " ", "p", "a", "t", "t", "e", "r", "n", "s", "\n", " ", " ", " ", " ", " ", " ", " ", " ", "e", "n", "t", "r", "y", ":", " ", "p", "y", "t", "h", "o", "n", " ", ".", "g", "u", "a", "r", "d", "i", "a", "n", "/", "c", "h", "e", "c", "k", "_", "d", "a", "n", "g", "e", "r", "o", "u", "s", ".", "p", "y", "\n", " ", " ", " ", " ", " ", " ", " ", " ", "l", "a", "n", "g", "u", "a", "g", "e", ":", " ", "p", "y", "t", "h", "o", "n", "\n", " ", " ", " ", " ", " ", " ", " ", " ", "t", "y", "p", "e", "s", ":", " ", "[", "p", "y", "t", "h", "o", "n", "]", "\n", " ", " ", " ", " ", " ", " ", "-", " ", "i", "d", ":", " ", "g", "u", "a", "r", "d", "i", "a", "n", "-", "m", "o", "c", "k", "-", "d", "a", "t", "a", "\n", " ", " ", " ", " ", " ", " ", " ", " ", "n", "a", "m", "e", ":", " ", "C", "h", "e", "c", "k", " ", "m", "o", "c", "k", " ", "d", "a", "t", "a", "\n", " ", " ", " ", " ", " ", " ", " ", " ", "e", "n", "t", "r", "y", ":", " ", "p", "y", "t", "h", "o", "n", " ", ".", "g", "u", "a", "r", "d", "i", "a", "n", "/", "c", "h", "e", "c", "k", "_", "m", "o", "c", "k", "_", "d", "a", "t", "a", ".", "p", "y", "\n", " ", " ", " ", " ", " ", " ", " ", " ", "l", "a", "n", "g", "u", "a", "g", "e", ":", " ", "p", "y", "t", "h", "o", "n", "\n", " ", " ", " ", " ", " ", " ", " ", " ", "t", "y", "p", "e", "s", ":", " ", "[", "p", "y", "t", "h", "o", "n", "]", "\n", " ", " ", " ", " ", " ", " ", "-", " ", "i", "d", ":", " ", "g", "u", "a", "r", "d", "i", "a", "n", "-", "s", "e", "c", "u", "r", "i", "t", "y", "\n", " ", " ", " ", " ", " ", " ", " ", " ", "n", "a", "m", "e", ":", " ", "C", "h", "e", "c", "k", " ", "s", "e", "c", "u", "r", "i", "t", "y", " ", "p", "a", "t", "t", "e", "r", "n", "s", "\n", " ", " ", " ", " ", " ", " ", " ", " ", "e", "n", "t", "r", "y", ":", " ", "p", "y", "t", "h", "o", "n", " ", ".", "g", "u", "a", "r", "d", "i", "a", "n", "/", "c", "h", "e", "c", "k", "_", "s", "e", "c", "u", "r", "i", "t", "y", ".", "p", "y", "\n", " ", " ", " ", " ", " ", " ", " ", " ", "l", "a", "n", "g", "u", "a", "g", "e", ":", " ", "p", "y", "t", "h", "o", "n", "\n", " ", " ", " ", " ", " ", " ", " ", " ", "t", "y", "p", "e", "s", ":", " ", "[", "p", "y", "t", "h", "o", "n", "]", "\n", " ", " ", " ", " ", " ", " ", "-", " ", "i", "d", ":", " ", "g", "u", "a", "r", "d", "i", "a", "n", "-", "s", "t", "a", "r", "-", "i", "m", "p", "o", "r", "t", "s", "\n", " ", " ", " ", " ", " ", " ", " ", " ", "n", "a", "m", "e", ":", " ", "C", "h", "e", "c", "k", " ", "s", "t", "a", "r", " ", "i", "m", "p", "o", "r", "t", "s", "\n", " ", " ", " ", " ", " ", " ", " ", " ", "e", "n", "t", "r", "y", ":", " ", "p", "y", "t", "h", "o", "n", " ", ".", "g", "u", "a", "r", "d", "i", "a", "n", "/", "c", "h", "e", "c", "k", "_", "s", "t", "a", "r", "_", "i", "m", "p", "o", "r", "t", "s", ".", "p", "y", "\n", " ", " ", " ", " ", " ", " ", " ", " ", "l", "a", "n", "g", "u", "a", "g", "e", ":", " ", "p", "y", "t", "h", "o", "n", "\n", " ", " ", " ", " ", " ", " ", " ", " ", "t", "y", "p", "e", "s", ":", " ", "[", "p", "y", "t", "h", "o", "n", "]", "\n", " ", " ", " ", " ", " ", " ", "-", " ", "i", "d", ":", " ", "g", "u", "a", "r", "d", "i", "a", "n", "-", "m", "u", "t", "a", "b", "l", "e", "-", "d", "e", "f", "a", "u", "l", "t", "s", "\n", " ", " ", " ", " ", " ", " ", " ", " ", "n", "a", "m", "e", ":", " ", "C", "h", "e", "c", "k", " ", "m", "u", "t", "a", "b", "l", "e", " ", "d", "e", "f", "a", "u", "l", "t", "s", "\n", " ", " ", " ", " ", " ", " ", " ", " ", "e", "n", "t", "r", "y", ":", " ", "p", "y", "t", "h", "o", "n", " ", ".", "g", "u", "a", "r", "d", "i", "a", "n", "/", "c", "h", "e", "c", "k", "_", "m", "u", "t", "a", "b", "l", "e", "_", "d", "e", "f", "a", "u", "l", "t", "s", ".", "p", "y", "\n", " ", " ", " ", " ", " ", " ", " ", " ", "l", "a", "n", "g", "u", "a", "g", "e", ":", " ", "p", "y", "t", "h", "o", "n", "\n", " ", " ", " ", " ", " ", " ", " ", " ", "t", "y", "p", "e", "s", ":", " ", "[", "p", "y", "t", "h", "o", "n", "]", "\n", " ", " ", " ", " ", " ", " ", "-", " ", "i", "d", ":", " ", "g", "u", "a", "r", "d", "i", "a", "n", "-", "t", "o", "d", "o", "-", "m", "a", "r", "k", "e", "r", "s", "\n", " ", " ", " ", " ", " ", " ", " ", " ", "n", "a", "m", "e", ":", " ", "C", "h", "e", "c", "k", " ", "T", "O", "D", "O", " ", "m", "a", "r", "k", "e", "r", "s", "\n", " ", " ", " ", " ", " ", " ", " ", " ", "e", "n", "t", "r", "y", ":", " ", "p", "y", "t", "h", "o", "n", " ", ".", "g", "u", "a", "r", "d", "i", "a", "n", "/", "c", "h", "e", "c", "k", "_", "t", "o", "d", "o", "_", "m", "a", "r", "k", "e", "r", "s", ".", "p", "y", "\n", " ", " ", " ", " ", " ", " ", " ", " ", "l", "a", "n", "g", "u", "a", "g", "e", ":", " ", "p", "y", "t", "h", "o", "n", "\n", " ", " ", " ", " ", " ", " ", " ", " ", "t", "y", "p", "e", "s", ":", " ", "[", "p", "y", "t", "h", "o", "n", "]", "\n", " ", " ", " ", " ", " ", " ", "-", " ", "i", "d", ":", " ", "g", "u", "a", "r", "d", "i", "a", "n", "-", "s", "u", "b", "p", "r", "o", "c", "e", "s", "s", "-", "s", "h", "e", "l", "l", "\n", " ", " ", " ", " ", " ", " ", " ", " ", "n", "a", "m", "e", ":", " ", "C", "h", "e", "c", "k", " ", "s", "u", "b", "p", "r", "o", "c", "e", "s", "s", " ", "s", "h", "e", "l", "l", "\n", " ", " ", " ", " ", " ", " ", " ", " ", "e", "n", "t", "r", "y", ":", " ", "p", "y", "t", "h", "o", "n", " ", ".", "g", "u", "a", "r", "d", "i", "a", "n", "/", "c", "h", "e", "c", "k", "_", "s", "u", "b", "p", "r", "o", "c", "e", "s", "s", "_", "s", "h", "e", "l", "l", ".", "p", "y", "\n", " ", " ", " ", " ", " ", " ", " ", " ", "l", "a", "n", "g", "u", "a", "g", "e", ":", " ", "p", "y", "t", "h", "o", "n", "\n", " ", " ", " ", " ", " ", " ", " ", " ", "t", "y", "p", "e", "s", ":", " ", "[", "p", "y", "t", "h", "o", "n", "]", "\n", " ", " ", " ", " ", " ", " ", "-", " ", "i", "d", ":", " ", "g", "u", "a", "r", "d", "i", "a", "n", "-", "b", "a", "r", "e", "-", "e", "x", "c", "e", "p", "t", "\n", " ", " ", " ", " ", " ", " ", " ", " ", "n", "a", "m", "e", ":", " ", "C", "h", "e", "c", "k", " ", "b", "a", "r", "e", " ", "e", "x", "c", "e", "p", "t", "\n", " ", " ", " ", " ", " ", " ", " ", " ", "e", "n", "t", "r", "y", ":", " ", "p", "y", "t", "h", "o", "n", " ", ".", "g", "u", "a", "r", "d", "i", "a", "n", "/", "c", "h", "e", "c", "k", "_", "b", "a", "r", "e", "_", "e", "x", "c", "e", "p", "t", ".", "p", "y", "\n", " ", " ", " ", " ", " ", " ", " ", " ", "l", "a", "n", "g", "u", "a", "g", "e", ":", " ", "p", "y", "t", "h", "o", "n", "\n", " ", " ", " ", " ", " ", " ", " ", " ", "t", "y", "p", "e", "s", ":", " ", "[", "p", "y", "t", "h", "o", "n", "]", "\n">>

\* lines 338-346
TypeScriptHook ==
    <<"\n", " ", " ", "-", " ", "r", "e", "p", "o", ":", " ", "l", "o", "c", "a", "l", "\n", " ", " ", " ", " ", "h", "o", "o", "k", "s", ":", "\n", " ", " ", " ", " ", " ", " ", "-", " ", "i", "d", ":", " ", "g", "u", "a", "r", "d", "i", "a", "n", "\n", " ", " ", " ", " ", " ", " ", " ", " ", "n", "a", "m", "e", ":", " ", "G", "u", "a", "r", "d", "i", "a", "n", " ", "c", "h", "e", "c", "k", "s", "\n", " ", " ", " ", " ", " ", " ", " ", " ", "e", "n", "t", "r", "y", ":", " ", "n", "o", "d", "e", " ", ".", "g", "u", "a", "r", "d", "i", "a", "n", "/", "g", "u", "a", "r", "d", "i", "a", "n", ".", "j", "s", "\n", " ", " ", " ", " ", " ", " ", " ", " ", "l", "a", "n", "g", "u", "a", "g", "e", ":", " ", "n", "o", "d", "e", "\n", " ", " ", " ", " ", " ", " ", " ", " ", "t", "y", "p", "e", "s", ":", " ", "[", "j", "a", "v", "a", "s", "c", "r", "i", "p", "t", ",", " ", "j", "s", "x", ",", " ", "t", "y", "p", "e", "s", "c", "r", "i", "p", "t", ",", " ", "t", "s", "x", "]", "\n">>

\* lines 349-356
DefaultHook ==
    <<"\n", " ", " ", "-", " ", "r", "e", "p", "o", ":", " ", "l", "o", "c", "a", "l", "\n", " ", " ", " ", " ", "h", "o", "o", "k", "s", ":", "\n", " ", " ", " ", " ", " ", " ", "-", " ", "i", "d", ":", " ", "g", "u", "a", "r", "d", "i", "a", "n", "\n", " ", " ", " ", " ", " ", " ", " ", " ", "n", "a", "m", "e", ":", " ", "G", "u", "a", "r", "d", "i", "a", "n", " ", "c", "h", "e", "c", "k", "s", "\n", " ", " ", " ", " ", " ", " ", " ", " ", "e", "n", "t", "r", "y", ":", " ", ".", "g", "u", "a", "r", "d", "i", "a", "n", "/", "g", "u", "a", "r", "d", "i", "a", "n", ".", "s", "h", "\n", " ", " ", " ", " ", " ", " ", " ", " ", "l", "a", "n", "g", "u", "a", "g", "e", ":", " ", "s", "c", "r", "i", "p", "t", "\n">>

\* lines 286-357
guardianHook(lang) ==
    IF lang = "python" THEN PythonHook
    ELSE IF lang = "typescript" THEN TypeScriptHook
    ELSE DefaultHook

\* the keys of the files maps of generatePythonFiles, generateTypeScriptFiles
\* and generateGoFiles, without the directory
PythonFiles ==
    {<<"c", "h", "e", "c", "k", "_", "f", "i", "l", "e", "_", "s", "i", "z", "e", ".", "p", "y">>,
     <<"c", "h", "e", "c", "k", "_", "f", "u", "n", "c", "t", "i", "o", "n", "_", "s", "i", "z", "e", ".", "p", "y">>,
     <<"c", "h", "e", "c", "k", "_", "d", "a", "n", "g", "e", "r", "o", "u", "s", ".", "p", "y">>,
     <<"c", "h", "e", "c", "k", "_", "m", "o", "c", "k", "_", "d", "a", "t", "a", ".", "p", "y">>,
     <<"c", "h", "e", "c", "k", "_", "s", "e", "c", "u", "r", "i", "t", "y", ".", "p", "y">>,
     <<"c", "h", "e", "c", "k", "_", "s", "t", "a", "r", "_", "i", "m", "p", "o", "r", "t", "s", ".", "p", "y">>,
     <<"c", "h", "e", "c", "k", "_", "m", "u", "t", "a", "b", "l", "e", "_", "d", "e", "f", "a", "u", "l", "t", "s", ".", "p", "y">>,
     <<"c", "h", "e", "c", "k", "_", "t", "o", "d", "o", "_", "m", "a", "r", "k", "e", "r", "s", ".", "p", "y">>,
     <<"c", "h", "e", "c", "k", "_", "s", "u", "b", "p", "r", "o", "c", "e", "s", "s", "_", "s", "h", "e", "l", "l", ".", "p", "y">>,
     <<"c", "h", "e", "c", "k", "_", "b", "a", "r", "e", "_", "e", "x", "c", "e", "p", "t", ".", "p", "y">>,
     <<"g", "u", "a", "r", "d", "i", "a", "n", ".", "p", "y">>}

TypeScriptFiles ==
    {<<"c", "h", "e", "c", "k", "_", "f", "i", "l", "e", "_", "s", "i", "z", "e", ".", "j", "s">>,
     <<"c", "h", "e", "c", "k", "_", "d", "a", "n", "g", "e", "r", "o", "u", "s", ".", "j", "s">>,
     <<"c", "h", "e", "c", "k", "_", "m", "o", "c", "k", "_", "d", "a", "t", "a", ".", "j", "s">>,
     <<"c", "h", "e", "c", "k", "_", "c", "o", "n", "s", "o", "l", "e", "_", "l", "o", "g", ".", "j", "s">>,
     <<"g", "u", "a", "r", "d", "i", "a", "n", ".", "j", "s">>}

GoFiles ==
    {<<"g", "u", "a", "r", "d", "i", "a", "n", ".", "s", "h">>}

\* lines 98-107
ScaffoldFiles(lang) ==
    IF lang = "typescript" THEN TypeScriptFiles
    ELSE IF lang = "go" THEN GoFiles
    ELSE PythonFiles

\* the start of the text generateConfig writes
GeneratedConfig ==
    <<"#", " ", "G", "u", "a", "r", "d", "i", "a", "n", " ", "C", "o", "n", "f", "i", "g", "u", "r", "a", "t", "i", "o", "n", "\n">>

\* strings.TrimRight(s, "\n")
RECURSIVE TrimRightNewlines(_)
TrimRightNewlines(s) ==
    IF s # <<>> /\ s[Len(s)] = NL THEN TrimRightNewlines(Take(s, Len(s) - 1))
    ELSE s

\* os.WriteFile: the file is created or its content replaced
WriteFile(tree, p, text) ==
    [q \in DOMAIN tree \cup {p} |-> IF q = p THEN File(text) ELSE tree[q]]

\* os.MkdirAll of a directory below the root
MkdirAll(tree, p) ==
    [q \in DOMAIN tree \cup {p} |-> IF q \in DOMAIN tree THEN tree[q] ELSE Dir]

\* os.RemoveAll
RemoveTree(tree, p) ==
    [q \in {r \in DOMAIN tree : ~(Len(r) >= Len(p) /\ SubSeq(r, 1, Len(p)) = p)} |->
        tree[q]]

\* os.Remove of a file
Remove(tree, p) == [q \in DOMAIN tree \ {p} |-> tree[q]]

\* lines 276-279: the content read, empty when the file cannot be read
ExistingContent(tree, readOk) ==
    IF <<PreCommitName>> \in DOMAIN tree /\ readOk
    THEN tree[<<PreCommitName>>].content
    ELSE <<>>

\* lines 361-372: the content written
NewPreCommitContent(existingContent, lang) ==
    IF existingContent = <<>>
    THEN ReposKey \o guardianHook(lang)
    ELSE TrimRightNewlines(existingContent) \o <<NL>> \o guardianHook(lang)

\* lines 274-373: the tree after the call and the error returned, for a read
\* and a write that succeed or fail
generatePreCommitConfig(tree, lang, readOk, writeOk) ==
    LET existingContent == ExistingContent(tree, readOk)
    IN  IF Contains(existingContent, GuardianWord)
        THEN [fs |-> tree, err |-> "nil"]
        ELSE IF writeOk
        THEN [fs |-> WriteFile(tree, <<PreCommitName>>,
                               NewPreCommitContent(existingContent, lang)),
              err |-> "nil"]
        ELSE [fs |-> tree, err |-> "error"]

\* lines 38-44: the cleanup closure of Install
cleanup(tree, created) ==
    Remove(IF created THEN RemoveTree(tree, <<GuardianDir>>) ELSE tree,
           <<ConfigName>>)

\* the calls of generatePreCommitConfig a run makes at most
MaxCalls ==
    3

\* config.Language
Languages == {"python", "typescript", "go"}

\* the configuration of copy_test.go lines 221-226
ExistingHooks ==
    <<"r", "e", "p", "o", "s", ":", "\n", " ", " ", "-", " ", "r", "e", "p", "o", ":", " ", "h", "t", "t", "p", "s", ":", "/", "/", "g", "i", "t", "h", "u", "b", ".", "c", "o", "m", "/", "p", "r", "e", "-", "c", "o", "m", "m", "i", "t", "/", "p", "r", "e", "-", "c", "o", "m", "m", "i", "t", "-", "h", "o", "o", "k", "s", "\n", " ", " ", " ", " ", "r", "e", "v", ":", " ", "v", "4", ".", "4", ".", "0", "\n", " ", " ", " ", " ", "h", "o", "o", "k", "s", ":", "\n", " ", " ", " ", " ", " ", " ", "-", " ", "i", "d", ":", " ", "t", "r", "a", "i", "l", "i", "n", "g", "-", "w", "h", "i", "t", "e", "s", "p", "a", "c", "e", "\n">>

\* what .pre-commit-config.yaml holds before the first call: nothing, the
\* test's configuration with no, one and two newlines at its end, a newline
\* alone, a comment alone, and a configuration whose comment names the tool
PreCommitPool ==
    {<<>>,
     ExistingHooks,
     TrimRightNewlines(ExistingHooks),
     ExistingHooks \o <<NL>>,
     <<NL>>,
     <<"#", " ", "h", "o", "o", "k", "s", "\n">>,
     <<"#", " ", "g", "u", "a", "r", "d", "i", "a", "n", " ", "h", "o", "o", "k", "s", " ", "g", "o", " ", "b", "e", "l", "o", "w", "\n">> \o ExistingHooks}

\* the file of copy_test.go line 304
ScaffoldTestFile ==
    <<"t", "e", "s", "t", ".", "p", "y">>

\* the working directory before the call: with or without .guardian and a
\* file in it, with or without a guardian_config.toml, with or without
\* .pre-commit-config.yaml
ScaffoldTrees ==
    {[p \in {<<>>}
            \cup (IF hasDir THEN {<<GuardianDir>>, <<GuardianDir, ScaffoldTestFile>>}
                           ELSE {})
            \cup (IF hasConfig THEN {<<ConfigName>>} ELSE {})
            \cup (IF hasHooks THEN {<<PreCommitName>>} ELSE {}) |->
         IF p = <<ConfigName>> THEN File(ConfigText)
         ELSE IF p = <<PreCommitName>> THEN File(hooks)
         ELSE IF p = <<GuardianDir, ScaffoldTestFile>> THEN File(<<"x">>)
         ELSE Dir] :
        hasDir \in BOOLEAN, hasConfig \in BOOLEAN, hasHooks \in BOOLEAN,
        hooks \in PreCommitPool}

(***************************************************************************)
(* Install and generatePreCommitConfig, run in a working directory         *)
(***************************************************************************)
ScaffoldInit ==
    /\ pc = "ready"
    /\ op \in {"Install", "generatePreCommitConfig"}
    /\ language \in Languages
    /\ fs \in ScaffoldTrees
    /\ fsBefore = fs
    /\ createdDir = FALSE
    /\ calls = 0
    /\ err = "none"
    /\ todo = <<>>
    /\ output = <<>>
    /\ info = EmptyInfo
    /\ failed = {}
    /\ handed = <<>>
    /\ printed = <<>>
    /\ counts = NoCounts
    /\ exitCode = 0
    /\ issues = <<>>
    /\ path = <<>>
    /\ content = <<>>
    /\ lines = <<>>
    /\ lineCount = 0
    /\ idx = 0
    /\ inDocstring = FALSE
    /\ docstringDelim = <<>>
    /\ model = <<>>
    /\ msgs = <<>>

\* lines 274-373: one call; the caller may call again
CallGeneratePreCommitConfig ==
    /\ pc = "ready"
    /\ op = "generatePreCommitConfig"
    /\ calls < MaxCalls
    /\ \E readOk, writeOk \in BOOLEAN :
           \E r \in {generatePreCommitConfig(fs, language, readOk, writeOk)} :
               /\ fs' = r.fs
               /\ err' = r.err
    /\ calls' = calls + 1
    /\ UNCHANGED <<pc, op, language, fsBefore, createdDir>>
    /\ UNCHANGED <<fileVars, issues, todo, output, info, failed, handed, reportVars>>
    /\ UNCHANGED screenVars

\* lines 24-36: createdDir, and the directory made unless MkdirAll fails
InstallStart ==
    /\ pc = "ready"
    /\ op = "Install"
    /\ createdDir' = (<<GuardianDir>> \notin DOMAIN fs)
    /\ \/ /\ fs' = MkdirAll(fs, <<GuardianDir>>)
          /\ pc' = "files"
          /\ err' = err
       \/ /\ <<GuardianDir>> \notin DOMAIN fs
          /\ fs' = fs
          /\ pc' = "returned"
          /\ err' = "error"
    /\ UNCHANGED <<op, language, fsBefore, calls>>
    /\ UNCHANGED <<fileVars, issues, todo, output, info, failed, handed, reportVars>>
    /\ UNCHANGED screenVars

\* lines 46-80, and 141-149 when the files are generated: the files are
\* written one by one, in the order of the embedded directory or of the map;
\* the first write that fails ends the call after cleanup
InstallFiles ==
    /\ pc = "files"
    /\ \E written \in SUBSET ScaffoldFiles(language) :
           \E tree \in {[q \in DOMAIN fs \cup {<<GuardianDir, f>> : f \in written} |->
                            IF q \in {<<GuardianDir, f>> : f \in written}
                            THEN File(<<"g">>) ELSE fs[q]]} :
               IF written = ScaffoldFiles(language)
               THEN /\ fs' = tree
                    /\ pc' = "config"
                    /\ err' = err
               ELSE /\ fs' = cleanup(tree, createdDir)
                    /\ pc' = "returned"
                    /\ err' = "error"
    /\ UNCHANGED <<op, language, fsBefore, createdDir, calls>>
    /\ UNCHANGED <<fileVars, issues, todo, output, info, failed, handed, reportVars>>
    /\ UNCHANGED screenVars

\* lines 83-86 (and 114-116): generateConfig
InstallConfig ==
    /\ pc = "config"
    /\ \/ /\ fs' = WriteFile(fs, <<ConfigName>>, GeneratedConfig)
          /\ pc' = "precommit"
          /\ err' = err
       \/ /\ fs' = cleanup(fs, createdDir)
          /\ pc' = "returned"
          /\ err' = "error"
    /\ UNCHANGED <<op, language, fsBefore, createdDir, calls>>
    /\ UNCHANGED <<fileVars, issues, todo, output, info, failed, handed, reportVars>>
    /\ UNCHANGED screenVars

\* lines 89-94 (and 119-121): generatePreCommitConfig, and the return
InstallPreCommit ==
    /\ pc = "precommit"
    /\ \E readOk, writeOk \in BOOLEAN :
           \E r \in {generatePreCommitConfig(fs, language, readOk, writeOk)} :
               /\ fs' = IF r.err = "nil" THEN r.fs ELSE cleanup(r.fs, createdDir)
               /\ err' = r.err
    /\ pc' = "returned"
    /\ calls' = calls + 1
    /\ UNCHANGED <<op, language, fsBefore, createdDir>>
    /\ UNCHANGED <<fileVars, issues, todo, output, info, failed, handed, reportVars>>
    /\ UNCHANGED screenVars

ScaffoldNext ==
    \/ CallGeneratePreCommitConfig
    \/ InstallStart
    \/ InstallFiles
    \/ InstallConfig
    \/ InstallPreCommit

SpecScaffold == ScaffoldInit /\ [][ScaffoldNext]_vars

(***************************************************************************)
(* The interactive screen: interactive.go.  The program holds one          *)
(* InteractiveModel; Update is called once per message, for a key press or *)
(* for the message a command returns when it completes.  The text of the   *)
(* input field is what the user typed before Enter.                        *)
(***************************************************************************)
\* mainmenu.go lines 103-117: the bindings
KeyUp ==
    {<<"u", "p">>,
     <<"k">>}

KeyDown ==
    {<<"d", "o", "w", "n">>,
     <<"j">>}

KeyEnter ==
    {<<"e", "n", "t", "e", "r">>}

KeyQuit ==
    {<<"q">>,
     <<"c", "t", "r", "l", "+", "c">>}

KeyBack ==
    {<<"e", "s", "c">>,
     <<"b", "a", "c", "k", "s", "p", "a", "c", "e">>}

\* the keys pressed: one of each binding, p and e in both cases, another key
KeyPool ==
    {<<"u", "p">>,
     <<"d", "o", "w", "n">>,
     <<"e", "n", "t", "e", "r">>,
     <<"q">>,
     <<"e", "s", "c">>,
     <<"p">>,
     <<"P">>,
     <<"e">>,
     <<"E">>,
     <<"x">>}

\* lines 116-127: the commands of the switch
RunCommands ==
    {<<"/", "r", "u", "n">>,
     <<"r", "u", "n">>}

DryRunCommands ==
    {<<"/", "d", "r", "y", "-", "r", "u", "n">>,
     <<"d", "r", "y", "-", "r", "u", "n">>,
     <<"/", "d", "r", "y", "r", "u", "n">>,
     <<"d", "r", "y", "r", "u", "n">>}

HelpCommands ==
    {<<"/", "h", "e", "l", "p">>,
     <<"h", "e", "l", "p">>,
     <<"?">>}

PromptCommands ==
    {<<"/", "p", "r", "o", "m", "p", "t">>,
     <<"p", "r", "o", "m", "p", "t">>}

ConfigCommands ==
    {<<"/", "c", "o", "n", "f", "i", "g">>,
     <<"c", "o", "n", "f", "i", "g">>}

ExitCommands ==
    {<<"/", "e", "x", "i", "t">>,
     <<"e", "x", "i", "t">>,
     <<"q", "u", "i", "t">>,
     <<"q">>}

\* lines 130 and 143: the prefixes
ExplainPrefixes ==
    {<<"/", "e", "x", "p", "l", "a", "i", "n", " ">>,
     <<"e", "x", "p", "l", "a", "i", "n", " ">>}

PromptPrefix ==
    <<"/", "p", "r", "o", "m", "p", "t", " ">>

\* what the input field holds when Enter is pressed
Commands ==
    {<<"/", "r", "u", "n">>,
     <<" ", "R", "U", "N", " ">>,
     <<"/", "d", "r", "y", "-", "r", "u", "n">>,
     <<"/", "h", "e", "l", "p">>,
     <<"/", "p", "r", "o", "m", "p", "t">>,
     <<"/", "p", "r", "o", "m", "p", "t", " ", "f", "i", "x">>,
     <<"/", "c", "o", "n", "f", "i", "g">>,
     <<"/", "e", "x", "i", "t">>,
     <<"/", "e", "x", "p", "l", "a", "i", "n", " ", "0">>,
     <<"/", "e", "x", "p", "l", "a", "i", "n", " ", "1">>,
     <<"/", "e", "x", "p", "l", "a", "i", "n", " ", "2">>,
     <<"e", "x", "p", "l", "a", "i", "n", " ", "3">>,
     <<"/", "e", "x", "p", "l", "a", "i", "n", " ", "4">>,
     <<"/", "e", "x", "p", "l", "a", "i", "n", " ", " ", "2", "x">>,
     <<"/", "e", "x", "p", "l", "a", "i", "n", " ", "-", "1">>,
     <<"/", "e", "x", "p", "l", "a", "i", "n", " ", "x">>,
     <<"/", "e", "x", "p", "l", "a", "i", "n">>,
     <<"/", "E", "x", "p", "l", "a", "i", "n", " ", "1">>,
     <<"h", "e", "l", "l", "o">>,
     <<>>}

\* lines 181-186 and 209-215: the numbers of items of the two menus
HelpItems ==
    4

PromptItems ==
    5

\* the messages of the commands: lines 604-649
MsgKinds == {"checksCompleteMsg", "dryRunCompleteMsg", "promptGeneratedMsg"}

\* the commands that may be running at once, and the findings of a run
MaxPending ==
    2

MaxIssues ==
    3

\* what RunAll returns to runChecks: no finding up to MaxIssues findings, the
\* k-th a call of eval on line k
IssueLists ==
    {[k \in 1..n |-> Issue(TestPath, k, RuleBanEval, MsgEval, "critical")] :
        n \in 0..MaxIssues}

\* lines 41-53; a nil slice, string and pointer are the empty sequence
NewInteractive ==
    [mode |-> "ModeCommand", issues |-> <<>>, helpCursor |-> 0,
     promptCursor |-> 0, promptText |-> <<>>, explainIdx |-> 0,
     dryRunInfo |-> <<>>]

\* what Update returns: the model and the command, "none" for nil
Returns(m0, cmd) == [model |-> m0, cmd |-> cmd]

\* strings.Fields
RECURSIVE Fields(_)
Fields(s) ==
    IF \A k \in 1..Len(s) : s[k] \in Whitespace THEN <<>>
    ELSE LET a == CHOOSE i \in 1..Len(s) :
                      /\ s[i] \notin Whitespace
                      /\ \A k \in 1..(i - 1) : s[k] \in Whitespace
             b == CHOOSE i \in a..Len(s) :
                      /\ \A k \in a..i : s[k] \notin Whitespace
                      /\ i = Len(s) \/ s[i + 1] \in Whitespace
         IN  <<SubSeq(s, a, b)>> \o Fields(Drop(s, b))

\* fmt.Sscanf(s, "%d", &idx) for idx = 0: an optional sign and the digits
\* that follow it; idx stays 0 when there is no digit
SscanInt(s) ==
    LET signed == s # <<>> /\ s[1] \in {"+", "-"}
        body == IF signed THEN Tail(s) ELSE s
        n == CHOOSE i \in 0..Len(body) :
                 /\ \A k \in 1..i : body[k] \in Digits
                 /\ i = Len(body) \/ body[i + 1] \notin Digits
    IN  IF n = 0 THEN 0
        ELSE IF signed /\ s[1] = "-" THEN 0 - Atoi(Take(body, n))
        ELSE Atoi(Take(body, n))

\* an index test that lets 0 through
ExplainIndexFromZero(i, n) == i >= 0 /\ i <= n

\* line 135
ExplainIndexOk(i, n) == i > 0 /\ i <= n

\* lines 114-154
handleCommand(m0, cmd) ==
    LET low == ToLower(cmd)
        parts == Fields(cmd)
    IN  IF low \in RunCommands THEN Returns(m0, "checksCompleteMsg")
        ELSE IF low \in DryRunCommands THEN Returns(m0, "dryRunCompleteMsg")
        ELSE IF low \in HelpCommands
        THEN Returns([m0 EXCEPT !.mode = "ModeHelp", !.helpCursor = 0], "none")
        ELSE IF low \in PromptCommands
        THEN Returns([m0 EXCEPT !.mode = "ModePrompt", !.promptCursor = 0], "none")
        ELSE IF low \in ConfigCommands THEN Returns(m0, "none")
        ELSE IF low \in ExitCommands THEN Returns(m0, "quit")
        ELSE IF /\ \E pre \in ExplainPrefixes : HasPrefix(cmd, pre)
                /\ Len(parts) >= 2
                /\ ExplainIndexOk(SscanInt(parts[2]), Len(m0.issues))
        THEN Returns([m0 EXCEPT !.explainIdx = SscanInt(parts[2]) - 1,
                                !.mode = "ModeExplain"], "none")
        ELSE IF HasPrefix(cmd, PromptPrefix)
        THEN Returns([m0 EXCEPT !.mode = "ModePrompt", !.promptCursor = 0], "none")
        ELSE Returns(m0, "none")

\* lines 99-112; a key that is neither Enter nor Quit goes to the input field
updateCommand(m0, key, text) ==
    IF key \in KeyEnter THEN handleCommand(m0, TrimSpace(text))
    ELSE IF key \in KeyQuit THEN Returns(m0, "quit")
    ELSE Returns(m0, "none")

\* lines 156-178
updateResults(m0, key) ==
    IF key \in KeyBack THEN Returns([m0 EXCEPT !.mode = "ModeCommand"], "none")
    ELSE IF key \in KeyQuit THEN Returns(m0, "quit")
    ELSE IF ToLower(key) = <<"p">>
    THEN Returns([m0 EXCEPT !.mode = "ModePrompt", !.promptCursor = 0], "none")
    ELSE IF ToLower(key) = <<"e">> /\ Len(m0.issues) > 0
    THEN Returns([m0 EXCEPT !.explainIdx = 0, !.mode = "ModeExplain"], "none")
    ELSE Returns(m0, "none")

\* lines 180-206
updateHelp(m0, key) ==
    IF key \in KeyUp
    THEN Returns([m0 EXCEPT !.helpCursor = IF @ > 0 THEN @ - 1 ELSE @], "none")
    ELSE IF key \in KeyDown
    THEN Returns([m0 EXCEPT !.helpCursor = IF @ < HelpItems - 1 THEN @ + 1 ELSE @],
                 "none")
    ELSE IF key \in KeyEnter THEN Returns(m0, "promptGeneratedMsg")
    ELSE IF key \in KeyBack \cup KeyQuit
    THEN Returns([m0 EXCEPT !.mode = "ModeCommand"], "none")
    ELSE Returns(m0, "none")

\* lines 208-234
updatePrompt(m0, key) ==
    IF key \in KeyUp
    THEN Returns([m0 EXCEPT !.promptCursor = IF @ > 0 THEN @ - 1 ELSE @], "none")
    ELSE IF key \in KeyDown
    THEN Returns([m0 EXCEPT !.promptCursor = IF @ < PromptItems - 1 THEN @ + 1 ELSE @],
                 "none")
    ELSE IF key \in KeyEnter THEN Returns(m0, "promptGeneratedMsg")
    ELSE IF key \in KeyBack \cup KeyQuit
    THEN Returns([m0 EXCEPT !.mode = "ModeCommand"], "none")
    ELSE Returns(m0, "none")

\* lines 236-243 and 259-266
updatePromptResult(m0, key) ==
    IF key \in KeyBack \cup KeyQuit \cup KeyEnter
    THEN Returns([m0 EXCEPT !.mode = "ModeCommand"], "none")
    ELSE Returns(m0, "none")

updateDryRun(m0, key) ==
    IF key \in KeyBack \cup KeyQuit \cup KeyEnter
    THEN Returns([m0 EXCEPT !.mode = "ModeCommand"], "none")
    ELSE Returns(m0, "none")

\* lines 245-257
updateExplain(m0, key) ==
    IF key \in KeyBack \cup KeyQuit \cup KeyEnter
    THEN Returns([m0 EXCEPT !.mode = "ModeResults"], "none")
    ELSE IF key = <<"p">> /\ m0.explainIdx < Len(m0.issues)
    THEN Returns(m0, "promptGeneratedMsg")
    ELSE Returns(m0, "none")

\* a checks-complete case that leaves the mode as it is
ChecksDoneKeepingMode(m0, found) == [m0 EXCEPT !.issues = found]

\* lines 78-81
ChecksDone(m0, found) == [m0 EXCEPT !.issues = found, !.mode = "ModeResults"]

\* lines 61-76: the key messages of Update
UpdateKey(m0, key, text) ==
    IF m0.mode = "ModeCommand" THEN updateCommand(m0, key, text)
    ELSE IF m0.mode = "ModeResults" THEN updateResults(m0, key)
    ELSE IF m0.mode = "ModeHelp" THEN updateHelp(m0, key)
    ELSE IF m0.mode = "ModePrompt" THEN updatePrompt(m0, key)
    ELSE IF m0.mode = "ModePromptResult" THEN updatePromptResult(m0, key)
    ELSE IF m0.mode = "ModeExplain" THEN updateExplain(m0, key)
    ELSE updateDryRun(m0, key)

\* the commands that have not returned their message yet
Pending == msgs["checksCompleteMsg"] + msgs["dryRunCompleteMsg"]
               + msgs["promptGeneratedMsg"]

\* what prompts.Generate returns, as far as the screen looks at it
GeneratedPrompt ==
    <<"p", "r", "o", "m", "p", "t">>

ScreenInit ==
    /\ pc = "running"
    /\ op = "interactive"
    /\ model = NewInteractive
    /\ msgs = [k \in MsgKinds |-> 0]
    /\ fs = [p \in {<<>>} |-> Dir]
    /\ language = "python"
    /\ fsBefore = <<>>
    /\ createdDir = FALSE
    /\ calls = 0
    /\ err = "none"
    /\ todo = <<>>
    /\ output = <<>>
    /\ info = EmptyInfo
    /\ failed = {}
    /\ handed = <<>>
    /\ printed = <<>>
    /\ counts = NoCounts
    /\ exitCode = 0
    /\ issues = <<>>
    /\ path = <<>>
    /\ content = <<>>
    /\ lines = <<>>
    /\ lineCount = 0
    /\ idx = 0
    /\ inDocstring = FALSE
    /\ docstringDelim = <<>>

\* lines 60-76: Update for a key; the command it returns starts to run, and
\* tea.Quit ends the program once its message is handled.  The text of the
\* input field is read by Enter in ModeCommand alone.
KeyPress ==
    /\ pc \in {"running", "quitting"}
    /\ \E key \in KeyPool :
         \E text \in (IF model.mode = "ModeCommand" /\ key \in KeyEnter
                      THEN Commands ELSE {<<>>}) :
           \E r \in {UpdateKey(model, key, text)} :
               /\ r.cmd \in MsgKinds => Pending < MaxPending
               /\ model' = r.model
               /\ msgs' = IF r.cmd \in MsgKinds
                          THEN [msgs EXCEPT ![r.cmd] = @ + 1]
                          ELSE msgs
               /\ pc' = IF r.cmd = "quit" THEN "quitting" ELSE pc
    /\ UNCHANGED <<fileVars, issues, treeVars, scaffoldVars>>

\* lines 78-81: Update for the message of runChecks
ChecksComplete ==
    /\ pc \in {"running", "quitting"}
    /\ msgs["checksCompleteMsg"] > 0
    /\ \E found \in IssueLists : model' = ChecksDone(model, found)
    /\ msgs' = [msgs EXCEPT !["checksCompleteMsg"] = @ - 1]
    /\ UNCHANGED <<pc, fileVars, issues, treeVars, scaffoldVars>>

\* lines 83-86: Update for the message of runDryRun
DryRunComplete ==
    /\ pc \in {"running", "quitting"}
    /\ msgs["dryRunCompleteMsg"] > 0
    /\ model' = [model EXCEPT !.dryRunInfo = <<EmptyInfo>>, !.mode = "ModeDryRun"]
    /\ msgs' = [msgs EXCEPT !["dryRunCompleteMsg"] = @ - 1]
    /\ UNCHANGED <<pc, fileVars, issues, treeVars, scaffoldVars>>

\* lines 88-92: Update for the message of the prompt generators
PromptGenerated ==
    /\ pc \in {"running", "quitting"}
    /\ msgs["promptGeneratedMsg"] > 0
    /\ model' = [model EXCEPT !.promptText = GeneratedPrompt,
                              !.mode = "ModePromptResult"]
    /\ msgs' = [msgs EXCEPT !["promptGeneratedMsg"] = @ - 1]
    /\ UNCHANGED <<pc, fileVars, issues, treeVars, scaffoldVars>>

\* the program handles the message of tea.Quit and ends
QuitProgram ==
    /\ pc = "quitting"
    /\ pc' = "quit"
    /\ UNCHANGED <<fileVars, issues, treeVars, scaffoldVars, screenVars>>

ScreenNext ==
    \/ KeyPress
    \/ ChecksComplete
    \/ DryRunComplete
    \/ PromptGenerated
    \/ QuitProgram

SpecScreen == ScreenInit /\ [][ScreenNext]_vars

(***************************************************************************)
(* Notions the claims are stated in                                        *)
(***************************************************************************)
\* an iteration of checkFile's line loop
Classifying == pc = "loop" /\ idx' = idx + 1

\* the line the next iteration reads, and its trimmed text
CurLine == lines[idx + 1]

CurTrimmed == TrimSpace(CurLine)

\* the findings an iteration has added
Added == {issues'[k] : k \in (Len(issues) + 1)..Len(issues')}

TripleQuotes == {TripleDouble, TripleSingle}

\* d occurs in s at or after position p
OccursFrom(s, d, p) == \E q \in p..Len(s) : OccursAt(s, d, q)

\* The line count of a file from its newlines: one line per newline, and one
\* more for text after the last newline.
NewlineCount(text) ==
    Count(text, NL)
        + (IF Len(text) > 0 /\ text[Len(text)] # NL THEN 1 ELSE 0)

FileSizeFindings == {k \in 1..Len(issues) : issues[k].Rule = RuleFileSize}

(***************************************************************************)
(* C2.  A line whose trimmed text starts with a triple quote, read outside *)
(* a docstring, yields no finding and opens the in-docstring state unless  *)
(* the same delimiter occurs again later on the line; inside, every line   *)
(* yields no finding, and the state ends exactly at a line containing the  *)
(* delimiter that opened it; after that, lines are classified again.       *)
(***************************************************************************)
DocstringTracking ==
    [][Classifying =>
        /\ (~inDocstring) =>
              \A d \in TripleQuotes :
                  HasPrefix(CurTrimmed, d) =>
                      /\ issues' = issues
                      /\ inDocstring' <=> ~OccursFrom(CurTrimmed, d, 4)
                      /\ inDocstring' => docstringDelim' = d
        /\ inDocstring =>
              /\ issues' = issues
              /\ inDocstring' <=> ~OccursFrom(CurLine, docstringDelim, 1)
              /\ docstringDelim' = docstringDelim
        /\ (/\ ~inDocstring
            /\ \A d \in TripleQuotes : ~HasPrefix(CurTrimmed, d)
            /\ HasTodoMarker(CurLine)) =>
              /\ ~inDocstring'
              /\ \E f \in Added : f.Line = idx + 1 /\ f.Rule = RuleTodoMarker
    ]_vars

\* A docstring opened by a line of three double quotes, not closed by a line
\* of three single quotes, closed by a line that holds three double quotes,
\* and the line after it classified.
DocstringTrackingWitness ==
    /\ pc = "done"
    /\ Len(lines) = 4
    /\ lines[1] = TripleDouble
    /\ lines[2] = TripleSingle
    /\ ~HasPrefix(lines[3], TripleDouble) /\ Contains(lines[3], TripleDouble)
    /\ HasTodoMarker(lines[3])
    /\ Len(issues) = 3
    /\ \A k \in 1..3 : issues[k].Line = 4

(***************************************************************************)
(* Lexical positions of a file's text, for C3: a string literal runs from  *)
(* its quote to the matching unescaped quote (or the end of the line), a   *)
(* triple-quoted string to the matching triple quote, a comment from # or  *)
(* // outside a string to the end of the line.                             *)
(***************************************************************************)
LexStep(t, p, st) ==
    LET c == t[p]
    IN  CASE st = "code" ->
                 IF OccursAt(t, TripleDouble, p) THEN [n |-> 3, to |-> "tdq"]
                 ELSE IF OccursAt(t, TripleSingle, p) THEN [n |-> 3, to |-> "tsq"]
                 ELSE IF c = DQ THEN [n |-> 1, to |-> "dq"]
                 ELSE IF c = SQ THEN [n |-> 1, to |-> "sq"]
                 ELSE IF c = "#" \/ OccursAt(t, SlashMark, p)
                      THEN [n |-> 1, to |-> "comment"]
                 ELSE [n |-> 1, to |-> "code"]
          [] st \in {"dq", "sq"} ->
                 IF c = NL THEN [n |-> 1, to |-> "code"]
                 ELSE IF c = BS /\ p < Len(t) /\ t[p + 1] # NL
                      THEN [n |-> 2, to |-> st]
                 ELSE IF c = (IF st = "dq" THEN DQ ELSE SQ)
                      THEN [n |-> 1, to |-> "code"]
                 ELSE [n |-> 1, to |-> st]
          [] st \in {"tdq", "tsq"} ->
                 IF c = BS /\ p < Len(t) THEN [n |-> 2, to |-> st]
                 ELSE IF OccursAt(t, IF st = "tdq" THEN TripleDouble
                                                   ELSE TripleSingle, p)
                      THEN [n |-> 3, to |-> "code"]
                 ELSE [n |-> 1, to |-> st]
          [] st = "comment" ->
                 IF c = NL THEN [n |-> 1, to |-> "code"]
                 ELSE [n |-> 1, to |-> "comment"]

\* The lexical state in which each character of t[p..] is read.
RECURSIVE LexFrom(_, _, _)
LexFrom(t, p, st) ==
    IF p > Len(t) THEN <<>>
    ELSE LET s == LexStep(t, p, st)
         IN  [k \in 1..s.n |-> st] \o LexFrom(t, p + s.n, s.to)

\* The offset in the file's text of the first character of line k
LineOffset(k) == IF k = 1 THEN 0 ELSE Len(Join(SubSeq(lines, 1, k - 1))) + 1

\* A call of the word (eval, exec) on line k that lies in code: not in a string
\* literal, a multi-line string or a comment.
CallInCode(call, k) ==
    LET lex == LexFrom(content, 1, "code")
    IN  \E pos \in MatchStarts(call, lines[k]) : lex[LineOffset(k) + pos] = "code"

(***************************************************************************)
(* C3.  ban-eval is never reported for an eval( or exec( that lies inside  *)
(* a string literal, a multi-line string or a comment: a line with a       *)
(* ban-eval finding holds a call in code.                                  *)
(***************************************************************************)
EvalNeverInStringOrComment ==
    \A k \in 1..Len(issues) :
        issues[k].Rule = RuleBanEval =>
            CallInCode(IF issues[k].Message = MsgEval THEN evalCall ELSE execCall,
                       issues[k].Line)

(***************************************************************************)
(* C4.  On a classified line that is no comment, eval is reported exactly  *)
(* when the call pattern matches and the text before that match holds an   *)
(* even number of unescaped double and of unescaped single quotes; the     *)
(* same for exec.                                                          *)
(***************************************************************************)
CallMatches(call, s) ==
    {pos \in MatchStarts(call, s) : pos = 1 \/ s[pos - 1] \in CallDelimiters}

FirstMatch(call, s) ==
    CHOOSE pos \in CallMatches(call, s) : \A q \in CallMatches(call, s) : pos <= q

EvenQuotesBeforeMatch(call, s) ==
    /\ CallMatches(call, s) # {}
    /\ LET before == Take(s, FirstMatch(call, s) - 1)
           cleaned == RemoveAll(RemoveAll(before, EscapedDouble), EscapedSingle)
       IN  /\ Count(cleaned, DQ) % 2 = 0
           /\ Count(cleaned, SQ) % 2 = 0

EvalReportedIffCallOutsideQuotes ==
    [][(/\ Classifying
        /\ ~inDocstring
        /\ CurTrimmed # <<>>
        /\ ~OpensDocstring(CurTrimmed)
        /\ ~IsCommentLine(CurTrimmed)) =>
            /\ (\E f \in Added : f.Rule = RuleBanEval /\ f.Message = MsgEval)
                   <=> EvenQuotesBeforeMatch(evalCall, CurTrimmed)
            /\ (\E f \in Added : f.Rule = RuleBanEval /\ f.Message = MsgExec)
                   <=> EvenQuotesBeforeMatch(execCall, CurTrimmed)
    ]_vars

(***************************************************************************)
(* C5.  As claimed: every line that holds a mock-data substring or a TODO  *)
(* marker yields the finding, in a comment, in a string literal and inside *)
(* a multi-line (doc)string alike.                                         *)
(***************************************************************************)
HasMockData(line) == AnyMatch(mockPatternRegexes, ToLower(line))

MarkersReportedEverywhere ==
    [][Classifying =>
        /\ HasTodoMarker(CurLine) => \E f \in Added : f.Rule = RuleTodoMarker
        /\ HasMockData(CurLine) => \E f \in Added : f.Rule = RuleMockData
    ]_vars

\* C5, amended: the two rules ignore comment and string context on every line
\* the docstring tracking does not skip; a line that opens a docstring, lies
\* inside one or closes one yields neither finding.
MarkersReportedOnClassifiedLines ==
    [][Classifying =>
        IF inDocstring \/ OpensDocstring(CurTrimmed)
        THEN Added = {}
        ELSE /\ HasTodoMarker(CurLine) <=>
                    \E f \in Added : f.Rule = RuleTodoMarker /\ f.Line = idx + 1
             /\ HasMockData(CurLine) <=>
                    \E f \in Added : f.Rule = RuleMockData /\ f.Line = idx + 1
    ]_vars

\* A comment line that holds a mock-data substring and a marker has been
\* scanned, and both are reported.
MarkersWitness ==
    /\ pc = "done"
    /\ Len(lines) = 1
    /\ IsCommentLine(TrimSpace(lines[1]))
    /\ HasMockData(lines[1])
    /\ \E k \in 1..Len(issues) : issues[k].Rule = RuleMockData
    /\ \E k \in 1..Len(issues) : issues[k].Rule = RuleTodoMarker

(***************************************************************************)
(* C6.  On a line whose trimmed text starts with # or //, only mock-data   *)
(* and todo-marker can be reported.                                        *)
(***************************************************************************)
CodeRules ==
    {RuleBanPrint, RuleBanConsole, RuleBanExcept, RuleBanEval, RuleBanStar,
     RuleDangerousCmd, RuleSecretPattern, RuleSqlInjection, RuleSubprocessShell}

CommentLinesOnlyMarkers ==
    \A k \in 1..Len(issues) :
        IsCommentLine(TrimSpace(lines[issues[k].Line])) =>
            issues[k].Rule \notin CodeRules

\* A comment line that holds a call of eval and a marker has been scanned, and
\* the marker is all that was reported.
CommentLinesWitness ==
    /\ pc = "done"
    /\ Len(lines) = 1
    /\ IsCommentLine(TrimSpace(lines[1]))
    /\ MatchString(evalCall, lines[1])
    /\ Len(issues) = 1
    /\ issues[1].Rule = RuleTodoMarker

(***************************************************************************)
(* C7.  There is a file-size finding if and only if the file has more than *)
(* 500 lines; then there is exactly one, and it carries line 1.            *)
(***************************************************************************)
FileSizeIffOverMax ==
    pc \in {"loop", "done"} =>
        /\ Cardinality(FileSizeFindings) =
               (IF NewlineCount(content) > 500 THEN 1 ELSE 0)
        /\ \A k \in FileSizeFindings : issues[k].Line = 1

\* A file of 501 lines scanned to its end, with its one file-size finding
FileSizeWitness ==
    /\ pc = "done"
    /\ NewlineCount(content) = 501
    /\ Cardinality(FileSizeFindings) = 1

(***************************************************************************)
(* C8.  The line count is the number of newline-separated lines without    *)
(* the empty segment a final newline leaves (N lines with or without a     *)
(* final newline, 0 for the empty file), and DryRun counts the same.       *)
(***************************************************************************)
LineCountIsNewlineCount ==
    pc \in {"loop", "done"} =>
        /\ lineCount = NewlineCount(content)
        /\ DryRunLineCount(content) = lineCount
        /\ content = <<>> => lineCount = 0

\* A file of exactly 500 lines that ends in a newline has been counted
LineCountWitness ==
    /\ pc = "done"
    /\ Len(content) > 0
    /\ content[Len(content)] = NL
    /\ Count(content, NL) = 500
    /\ lineCount = 500

(***************************************************************************)
(* Notions for the claims about trees                                      *)
(***************************************************************************)
\* the directory names on a slash-separated path: every element but the last
RECURSIVE PathDirs(_)
PathDirs(s) ==
    IF ~Contains(s, <<"/">>) THEN {}
    ELSE LET cut == Index(s, <<"/">>)
         IN  {Take(s, cut - 1)} \cup PathDirs(Drop(s, cut))

RECURSIVE SumLines(_)
SumLines(files) ==
    IF files = <<>> THEN 0 ELSE files[1].Lines + SumLines(Tail(files))

\* the supported files of the tree that lie beneath an excluded directory and
\* hold a call of eval
HiddenDanger ==
    {p \in DOMAIN fs : /\ ~fs[p].isDir
                       /\ fs[p].content = DangerText
                       /\ Ext(p[Len(p)]) \in SupportedExts
                       /\ \E k \in 1..(Len(p) - 1) : p[k] \in excludedDirs}

(***************************************************************************)
(* C1.  The built-in scan reports no finding for a file beneath a          *)
(* directory with an excluded base name, DryRun neither lists nor counts   *)
(* such a file, and the walk never has an entry beneath such a directory   *)
(* to visit.                                                               *)
(***************************************************************************)
NothingBeneathExcluded ==
    /\ pc # "parsed" =>
           \A k \in 1..Len(issues) :
               PathDirs(issues[k].File) \cap excludedDirs = {}
    /\ \A k \in 1..Len(info.Files) :
           PathDirs(info.Files[k].Path) \cap excludedDirs = {}
    /\ info.FileCount = Len(info.Files)
    /\ info.TotalLines = SumLines(info.Files)
    /\ \A k \in 1..Len(todo) :
           \A j \in 1..(Len(todo[k]) - 1) : todo[k][j] \notin excludedDirs

\* The built-in scan has returned findings for a tree that holds a call of
\* eval in a supported file beneath an excluded directory.
NothingBeneathExcludedWitness ==
    /\ op = "RunAll"
    /\ pc = "returned"
    /\ HiddenDanger # {}
    /\ issues # <<>>

(***************************************************************************)
(* C9.  As claimed: every finding RunAll returns, from the built-in scan   *)
(* or parsed from the script's output, names a file of the tree and        *)
(* carries a line number between 1 and the line count of that file.        *)
(***************************************************************************)
LineNumbersInRange ==
    \A k \in 1..Len(issues) :
        \E p \in DOMAIN fs :
            /\ ~fs[p].isDir
            /\ JoinPath(p) = issues[k].File
            /\ issues[k].Line \in 1..NewlineCount(fs[p].content)

(***************************************************************************)
(* C10.  Every finding, built by checkFile or parsed from the script's     *)
(* output, carries getSeverity of its rule, and getSeverity is critical    *)
(* for ban-eval, dangerous-cmd, secret-pattern and sql-injection, info for *)
(* ban-print, ban-console and todo-marker, and warning for any other rule. *)
(***************************************************************************)
SeverityTable(rule) ==
    CASE rule \in {RuleBanEval, RuleDangerousCmd, RuleSecretPattern,
                   RuleSqlInjection} -> "critical"
      [] rule \in {RuleBanPrint, RuleBanConsole, RuleTodoMarker} -> "info"
      [] OTHER -> "warning"

SeverityByRuleAlone ==
    \A k \in 1..Len(issues) :
        /\ issues[k].Severity = getSeverity(issues[k].Rule)
        /\ issues[k].Severity = SeverityTable(issues[k].Rule)

BuiltinRules ==
    {RuleFileSize, RuleMockData, RuleBanPrint, RuleBanConsole, RuleBanExcept,
     RuleBanEval, RuleBanStar, RuleTodoMarker, RuleDangerousCmd,
     RuleSecretPattern, RuleSqlInjection, RuleSubprocessShell}

\* The script's output has been parsed into a critical finding and a finding
\* with a rule id the scanner does not know, rated a warning.
SeverityByRuleAloneWitness ==
    /\ pc = "parsed"
    /\ \E k \in 1..Len(issues) : issues[k].Severity = "critical"
    /\ \E k \in 1..Len(issues) :
           /\ issues[k].Rule \notin BuiltinRules
           /\ issues[k].Severity = "warning"

(***************************************************************************)
(* Claims about the report                                                 *)
(***************************************************************************)
\* the findings of the list that bear this file, in the order of the list
RECURSIVE OfFile(_, _)
OfFile(list, f) ==
    IF list = <<>> THEN <<>>
    ELSE (IF list[1].File = f THEN <<list[1]>> ELSE <<>>)
             \o OfFile(Tail(list), f)

\* a report of the findings has been presented
Reported == pc \in {"exited", "results"}

\* C11: when the findings are grouped by file for a report, no two groups
\* bear the same file, every file of a finding has a group, each group holds
\* exactly the findings of its file in the order they have in the list, and
\* the critical, warning and info totals sum to the number of findings.
GroupingKeepsEveryFinding ==
    Reported =>
        /\ \A g, h \in 1..Len(printed) :
               g # h => printed[g].File # printed[h].File
        /\ \A k \in 1..Len(issues) :
               \E g \in 1..Len(printed) : printed[g].File = issues[k].File
        /\ \A g \in 1..Len(printed) :
               /\ printed[g].Issues # <<>>
               /\ printed[g].Issues = OfFile(issues, printed[g].File)
        /\ counts.critical + counts.warnings + counts.info = Len(issues)

\* a report with two groups, one of several findings, and mixed severities
GroupingKeepsEveryFindingWitness ==
    /\ Reported
    /\ Len(printed) >= 2
    /\ \E g \in 1..Len(printed) : Len(printed[g].Issues) >= 2
    /\ counts.critical > 0
    /\ counts.warnings > 0
    /\ counts.info > 0

\* a finding of the list is critical
AnyCritical(list) == \E k \in 1..Len(list) : list[k].Severity = "critical"

ExitOneOnAnyIssue ==
    pc = "exited" => exitCode = (IF Len(issues) = 0 THEN 0 ELSE 1)

\* C14: the reporting order is deterministic: a report presented again over
\* the same list of findings and the same unchanged tree shows the file
\* groups, and the findings inside them, in the same order as before.
ReportOrderDeterministic ==
    [][(Reported /\ Reported' /\ issues' = issues /\ fs' = fs)
           => printed' = printed]_vars

(***************************************************************************)
(* Claims about the built-in scan of a tree                                *)
(***************************************************************************)
\* the files the built-in scan has read: the supported files that are not
\* beneath a directory with an excluded name and that the walk reached
\* without an error
Scanned ==
    {p \in DOMAIN fs :
        /\ ~fs[p].isDir
        /\ Ext(p[Len(p)]) \in SupportedExts
        /\ \A k \in 1..(Len(p) - 1) : p[k] \notin excludedDirs
        /\ \A k \in 0..Len(p) : Take(p, k) \notin failed}

\* C15: the scan state of checkFile starts fresh for every file: the
\* findings the built-in scan returns for a file are those of a scan of that
\* file alone, whatever files were scanned before it.
ScanStateNeverCarried ==
    (pc = "returned" /\ op = "RunAll") =>
        \A p \in Scanned :
            OfFile(issues, JoinPath(p)) = checkFile(JoinPath(p), fs[p].content)

\* the scan has returned a finding for a file it read after a file that ends
\* inside a docstring
ScanStateNeverCarriedWitness ==
    /\ pc = "returned"
    /\ op = "RunAll"
    /\ \E p, q \in Scanned :
           /\ checkFileAfter(NoScan, JoinPath(p), fs[p].content).inDocstring
           /\ issues # <<>>
           /\ issues[1].File = JoinPath(p)
           /\ issues[Len(issues)].File = JoinPath(q)
           /\ issues[Len(issues)].Rule = RuleBanEval
           /\ p # q

(***************************************************************************)
(* Claims about the output of the project's script                         *)
(***************************************************************************)
\* the line has one of the two forms of an issue line
IssueForm(line) == issueFormatRe(line).ok \/ failFormatRe(line).ok

\* the lines the text is made of, each ended by a newline
OutputLinesOf(text) ==
    LET ls == Split(text)
    IN  IF ls[Len(ls)] = <<>> THEN Take(ls, Len(ls) - 1) ELSE ls

\* one finding for each line that has one of the two forms, in order
RECURSIVE FindingsOfLines(_)
FindingsOfLines(ls) ==
    IF ls = <<>> THEN <<>>
    ELSE (IF IssueForm(ls[1]) THEN <<parseIssueLine(ls[1])>> ELSE <<>>)
             \o FindingsOfLines(Tail(ls))

\* C16: parseGuardianOutput returns one finding for each output line of one
\* of the two forms, in input order, and nothing for any other line; a line
\* of neither form never ends the parsing, so the lines of either form
\* before and after it are still returned.
EveryIssueLineParsed ==
    pc = "parsed" => issues = FindingsOfLines(OutputLinesOf(output))

\* the finding as a line of the first form: <File>:<Line> [<Rule>] <Message>
Render(i) ==
    i.File \o <<":">> \o Itoa(i.Line) \o <<" ", "[">> \o i.Rule
           \o <<"]", " ">> \o i.Message

\* C17: rendering a finding checkFile has returned as
\* <File>:<Line> [<Rule>] <Message> and feeding that single line to the
\* parser returns exactly one finding, with the same file, line, rule and
\* message and with the severity getSeverity gives the rule.
FormatRoundTrip ==
    pc = "done" =>
        \A k \in 1..Len(issues) :
            parseGuardianOutput(Render(issues[k]) \o <<NL>>) =
                <<Issue(issues[k].File, issues[k].Line, issues[k].Rule,
                        issues[k].Message, getSeverity(issues[k].Rule))>>

\* the scan of a file has returned a file-size finding together with a
\* finding of a line rule
FormatRoundTripWitness ==
    /\ pc = "done"
    /\ \E k \in 1..Len(issues) : issues[k].Rule = RuleFileSize
    /\ \E k \in 1..Len(issues) : issues[k].Rule # RuleFileSize

(***************************************************************************)
(* Claims about RunAll as a whole                                          *)
(***************************************************************************)
\* the order in which a walk meets two entries neither of which is beneath
\* the other: by the first name in which their paths differ
RECURSIVE PathLess(_, _)
PathLess(p, q) ==
    IF p = <<>> \/ q = <<>> THEN p = <<>> /\ q # <<>>
    ELSE IF p[1] = q[1] THEN PathLess(Tail(p), Tail(q))
    ELSE NameLess(p[1], q[1])

\* the supported files of the tree that are not beneath a directory with an
\* excluded name, nor at or beneath an entry of skip
FilesToScan(tree, skip) ==
    {p \in DOMAIN tree :
        /\ ~tree[p].isDir
        /\ Ext(p[Len(p)]) \in SupportedExts
        /\ \A k \in 1..(Len(p) - 1) : p[k] \notin excludedDirs
        /\ \A k \in 0..Len(p) : Take(p, k) \notin skip}

\* the findings of a scan of each of these files alone, in walk order
RECURSIVE FindingsOfFiles(_, _)
FindingsOfFiles(tree, files) ==
    IF files = {} THEN <<>>
    ELSE LET p == CHOOSE x \in files : \A y \in files \ {x} : PathLess(x, y)
         IN  checkFile(JoinPath(p), tree[p].content)
                 \o FindingsOfFiles(tree, files \ {p})

\* the findings of the built-in scan of the tree without the entries of skip
BuiltinFindings(tree, skip) ==
    FindingsOfFiles(tree, FilesToScan(tree, skip))

\* the output holds a line that announces an issue, by the word FAIL at its
\* start or by a bracket, and has neither of the two forms
Malformed(text) ==
    \E k \in 1..Len(OutputLinesOf(text)) :
        LET line == OutputLinesOf(text)[k]
        IN  /\ HasPrefix(line, FailWord) \/ Contains(line, <<"[">>)
            /\ ~IssueForm(line)

\* C18: RunAll falls back on every failure of the project's script: when the
\* script is absent, cannot be run, exits with an error or prints malformed
\* output, RunAll returns the findings of the built-in scan; only a
\* successful run returns the findings parsed from the script's output.
FallsBackOnScriptFailure ==
    /\ (pc = "returned" /\ op = "RunAll") =>
           issues = BuiltinFindings(fs, failed)
    /\ pc = "parsed" =>
           IF Malformed(output)
           THEN issues = BuiltinFindings(fs, {})
           ELSE issues = parseGuardianOutput(output)

\* the tree without the entries of skip and what lies beneath them
Without(tree, skip) ==
    [p \in {q \in DOMAIN tree : \A k \in 0..Len(q) : Take(q, k) \notin skip}
        |-> tree[p]]

\* C19: an error on one entry never aborts the scan: an entry whose walk
\* step reports an error, or a file that cannot be read, contributes no
\* finding, the walk goes on to its end, and the findings returned are those
\* of the scan of the tree without that entry.
ErrorsNeverAbortScan ==
    (pc = "returned" /\ op = "RunAll") =>
        /\ todo = <<>>
        /\ issues = BuiltinFindings(Without(fs, failed), {})

\* the scan has returned findings for a file the walk met after an entry
\* that failed
ErrorsNeverAbortScanWitness ==
    /\ pc = "returned"
    /\ op = "RunAll"
    /\ \E f \in failed :
           \E k \in 1..Len(issues) :
               \E q \in DOMAIN fs :
                   /\ JoinPath(q) = issues[k].File
                   /\ PathLess(f, q)

\* C20: if the root directory cannot be accessed at all, the scan surfaces a
\* hard failure to its top-level caller: the check command does not end as
\* it does after a scan that completed and found nothing, with no finding
\* shown and status 0.
RootFailureSurfaces ==
    (pc = "exited" /\ <<>> \in failed) =>
        exitCode # 0 \/ printed # <<>>

(***************************************************************************)
(* Claims about DryRun                                                     *)
(***************************************************************************)
\* the elements of a sequence
Elements(seq) == {seq[k] : k \in 1..Len(seq)}

DryRunInfoConsistent ==
    (pc = "returned" /\ op = "DryRun") =>
        /\ info.FileCount = Len(info.Files)
        /\ info.TotalLines = SumLines(info.Files)
        /\ \A a, b \in 1..Len(info.Excluded) :
               a # b => info.Excluded[a] # info.Excluded[b]

\* DryRun has returned after it met two excluded directories of the same
\* name, with files of one line and more listed
DryRunInfoConsistentWitness ==
    /\ pc = "returned"
    /\ op = "DryRun"
    /\ info.FileCount >= 2
    /\ info.TotalLines >= 3
    /\ Len(info.Excluded) = 1
    /\ Cardinality({p \in DOMAIN fs \ {<<>>} :
                       /\ fs[p].isDir
                       /\ p[Len(p)] \in excludedDirs
                       /\ \A k \in 1..(Len(p) - 1) : p[k] \notin excludedDirs
                       /\ \A k \in 0..Len(p) : Take(p, k) \notin failed}) = 2

\* the extensions the spec names: .py, .js, .ts and .tsx
NamedExts ==
    {<<".", "p", "y">>, <<".", "j", "s">>, <<".", "t", "s">>,
     <<".", "t", "s", "x">>}

\* the files of the tree with another extension that the walk can reach
OtherFiles ==
    {p \in DOMAIN fs :
        /\ ~fs[p].isDir
        /\ Ext(p[Len(p)]) \notin NamedExts
        /\ \A k \in 1..(Len(p) - 1) : p[k] \notin excludedDirs}

\* C23: a file whose extension is none of .py, .js, .ts and .tsx yields no
\* finding of the built-in scan, whatever it holds, is never handed to
\* checkFile, and is neither listed nor counted by DryRun.
UnsupportedFilesSkipped ==
    \A p \in OtherFiles :
        /\ pc # "parsed" =>
               \A k \in 1..Len(issues) : issues[k].File # JoinPath(p)
        /\ p \notin Elements(handed)
        /\ \A k \in 1..Len(info.Files) : info.Files[k].Path # JoinPath(p)
        /\ info.FileCount <=
               Cardinality({q \in DOMAIN fs : /\ ~fs[q].isDir
                                              /\ Ext(q[Len(q)]) \in NamedExts})

\* a walk has returned, without an error, from a tree in which a reachable
\* file with another extension holds a call of eval
UnsupportedFilesSkippedWitness ==
    /\ pc = "returned"
    /\ failed = {}
    /\ \E p \in OtherFiles : fs[p].content = DangerText

(***************************************************************************)
(* Claims about the configuration                                          *)
(***************************************************************************)
\* C24: the file-size threshold the scanner applies is the configured
\* max_file_lines of guardian_config.toml, and 500 when none is configured:
\* a scanned file has a file-size finding if and only if it has more lines
\* than that.
FileSizeUsesConfiguredMax ==
    pc = "done" =>
        (FileSizeFindings # {} <=> lineCount > Load(fs).Limits.MaxFileLines)

(***************************************************************************)
(* Claims about the exclusion set                                          *)
(***************************************************************************)
\* the directory names the spec excludes: version-control metadata, package
\* caches, virtual environments, build and dist output, the tool's scaffold
NamedExclusions ==
    {<<".", "g", "i", "t">>,
     <<"n", "o", "d", "e", "_", "m", "o", "d", "u", "l", "e", "s">>,
     <<"_", "_", "p", "y", "c", "a", "c", "h", "e", "_", "_">>,
     <<".", "v", "e", "n", "v">>,
     <<"v", "e", "n", "v">>,
     <<"b", "u", "i", "l", "d">>,
     <<"d", "i", "s", "t">>,
     <<".", "g", "u", "a", "r", "d", "i", "a", "n">>}

\* C25: a file beneath a directory named .git, node_modules, __pycache__,
\* .venv, venv, build, dist or .guardian is never scanned and never counted:
\* the built-in scan hands no such file to checkFile and reports no finding
\* for it, and DryRun does not list it.
NamedExclusionsCovered ==
    /\ \A k \in 1..Len(handed) :
           \A j \in 1..(Len(handed[k]) - 1) :
               handed[k][j] \notin NamedExclusions
    /\ pc # "parsed" =>
           \A k \in 1..Len(issues) :
               PathDirs(issues[k].File) \cap NamedExclusions = {}
    /\ \A k \in 1..Len(info.Files) :
           PathDirs(info.Files[k].Path) \cap NamedExclusions = {}

(***************************************************************************)
(* Claims about the order and the line numbers of checkFile's findings     *)
(***************************************************************************)
\* the findings of the line loop, by position in issues
LineFindingsAt == {k \in 1..Len(issues) : issues[k].Rule # RuleFileSize}

\* C28: checkFile returns the file-size finding first (when there is one)
\* and then the line findings in nondecreasing line-number order, each with
\* the 1-based index of the physical line the rule matched on: a line that is
\* scanned already, neither blank nor a docstring opening, and for a
\* todo-marker finding a line that holds a marker.  Blank lines and skipped
\* docstring lines advance the line number: every step of the loop moves to
\* the next line, and what it adds bears the number of the line it read.
FindingsInLineOrder ==
    /\ pc \in {"loop", "done"} =>
           /\ FileSizeFindings \subseteq {1}
           /\ \A j, k \in LineFindingsAt : j < k => issues[j].Line <= issues[k].Line
           /\ \A k \in LineFindingsAt :
                  /\ issues[k].Line \in 1..idx
                  /\ TrimSpace(lines[issues[k].Line]) # <<>>
                  /\ ~OpensDocstring(TrimSpace(lines[issues[k].Line]))
                  /\ issues[k].Rule = RuleTodoMarker =>
                         HasTodoMarker(lines[issues[k].Line])
    /\ pc = "done" => idx = Len(lines)

\* A blank line, a docstring opened and closed on the two lines after it, and
\* findings on the fourth line; and a file over the maximum with a call of
\* eval on its last line, the file-size finding before the line finding.
FindingsInLineOrderWitness ==
    /\ pc = "done"
    /\ \/ /\ Len(lines) = 4
          /\ lines[1] = <<>>
          /\ lines[2] = TripleDouble
          /\ lines[3] = TripleDouble
          /\ issues # <<>>
          /\ \A k \in 1..Len(issues) : issues[k].Line = 4
       \/ /\ Len(issues) = 2
          /\ issues[1].Rule = RuleFileSize
          /\ issues[2].Rule = RuleBanEval
          /\ issues[2].Line = Len(lines)

(***************************************************************************)
(* Claims about multi-line strings that open after other code              *)
(***************************************************************************)
\* the line read by this step holds a triple quote but does not begin with one
OpensMidLine ==
    /\ \A d \in TripleQuotes : ~HasPrefix(CurTrimmed, d)
    /\ \E d \in TripleQuotes : Contains(CurTrimmed, d)

\* C29, as claimed: the in-docstring state is opened only by a line whose
\* trimmed text begins with a triple quote; a line read outside the state that
\* does not begin with one, a line that opens a triple-quoted string after
\* other code included, is classified as code and leaves the state closed; a
\* line read outside the state that begins with a triple quote yields no
\* finding and opens the state; inside, every line yields no finding, and the
\* state ends at the next line that contains the delimiter, or never.
MidLineStringsUntracked ==
    [][Classifying =>
        /\ (~inDocstring /\ inDocstring') =>
               \E d \in TripleQuotes : HasPrefix(CurTrimmed, d)
        /\ (~inDocstring /\ \A d \in TripleQuotes : ~HasPrefix(CurTrimmed, d)) =>
               /\ ~inDocstring'
               /\ CurTrimmed # <<>> =>
                      issues' = issues \o LineFindings(path, CurLine, idx + 1)
        /\ (~inDocstring /\ \E d \in TripleQuotes : HasPrefix(CurTrimmed, d)) =>
               /\ issues' = issues
               /\ inDocstring'
               /\ docstringDelim' = Take(CurTrimmed, 3)
        /\ inDocstring =>
               /\ issues' = issues
               /\ inDocstring' <=> ~Contains(CurLine, docstringDelim)
    ]_vars

\* C29, amended: the same, but a line that begins with a triple quote and
\* holds the same delimiter again after it opens nothing: the line alone is
\* skipped and the lines after it are classified.
MidLineStringsUntrackedUnlessClosed ==
    [][Classifying =>
        /\ (~inDocstring /\ inDocstring') =>
               \E d \in TripleQuotes : HasPrefix(CurTrimmed, d)
        /\ (~inDocstring /\ \A d \in TripleQuotes : ~HasPrefix(CurTrimmed, d)) =>
               /\ ~inDocstring'
               /\ CurTrimmed # <<>> =>
                      issues' = issues \o LineFindings(path, CurLine, idx + 1)
        /\ (~inDocstring /\ \E d \in TripleQuotes : HasPrefix(CurTrimmed, d)) =>
               /\ issues' = issues
               /\ inDocstring' <=> ~OccursFrom(CurTrimmed, Take(CurTrimmed, 3), 4)
               /\ docstringDelim' = Take(CurTrimmed, 3)
        /\ inDocstring =>
               /\ issues' = issues
               /\ inDocstring' <=> ~Contains(CurLine, docstringDelim)
    ]_vars

\* A string opened after an assignment, its body line classified as code, its
\* closing line taken as an opening, and the code after it not classified:
\* the findings are those of the second line, and the file ends in the state.
MidLineStringsWitness ==
    /\ pc = "done"
    /\ Len(lines) = 4
    /\ ~OpensDocstring(TrimSpace(lines[1])) /\ Contains(lines[1], TripleDouble)
    /\ HasTodoMarker(lines[2]) /\ ~Contains(lines[2], TripleDouble)
    /\ lines[3] = TripleDouble
    /\ lines[4] = lines[2]
    /\ issues # <<>>
    /\ \A k \in 1..Len(issues) : issues[k].Line = 2
    /\ inDocstring

(***************************************************************************)
(* Claims about the scaffolding                                            *)
(***************************************************************************)
\* how often sub occurs in s
Occurrences(s, sub) == Cardinality({p \in 1..Len(s) : OccursAt(s, sub, p)})

\* what .pre-commit-config.yaml holds in a tree, nothing when it is absent
PreCommitText(tree) ==
    IF <<PreCommitName>> \in DOMAIN tree THEN tree[<<PreCommitName>>].content
    ELSE <<>>

\* the start of a Guardian hook block: a local repository whose first hook
\* bears an id that begins with guardian
HookBlockStart ==
    <<"\n", " ", " ", "-", " ", "r", "e", "p", "o", ":", " ", "l", "o", "c", "a", "l", "\n", " ", " ", " ", " ", "h", "o", "o", "k", "s", ":", "\n", " ", " ", " ", " ", " ", " ", "-", " ", "i", "d", ":", " ", "g", "u", "a", "r", "d", "i", "a", "n">>

HookBlocks(text) == Occurrences(text, HookBlockStart)

\* the lines that begin with the top-level key repos:
ReposKeys(text) ==
    LET ls == Split(text)
    IN  Cardinality({k \in 1..Len(ls) : HasPrefix(ls[k], ReposKey)})

\* C26: after every call of generatePreCommitConfig that returns no error,
\* .pre-commit-config.yaml holds exactly one Guardian hook block and at most
\* one top-level repos: key, and every line the file held before the first
\* call is still in it; a call made when the file holds the Guardian hooks
\* already leaves the file as it is.
PreCommitHookExactlyOnce ==
    [][(op = "generatePreCommitConfig" /\ calls' = calls + 1 /\ err' = "nil") =>
          /\ HookBlocks(PreCommitText(fs')) = 1
          /\ ReposKeys(PreCommitText(fs')) <= 1
          /\ Elements(Split(PreCommitText(fsBefore)))
                 \subseteq Elements(Split(PreCommitText(fs')))
          /\ HookBlocks(PreCommitText(fs)) >= 1 => fs' = fs
    ]_vars

\* the entries of a tree at or beneath .guardian
UnderGuardianDir(tree) ==
    {p \in DOMAIN tree : p # <<>> /\ p[1] = GuardianDir}

\* C27: when Install returns an error it leaves no partially created
\* scaffold and destroys nothing that was there before: a .guardian directory
\* this call created is gone, no scaffold file or configuration this call
\* wrote is left, and a .guardian directory and a guardian_config.toml that
\* were there before the call are as they were.
InstallFailureLeavesNoTrace ==
    (op = "Install" /\ pc = "returned" /\ err = "error") =>
        /\ <<GuardianDir>> \notin DOMAIN fsBefore => UnderGuardianDir(fs) = {}
        /\ DOMAIN fs \subseteq DOMAIN fsBefore
        /\ \A p \in UnderGuardianDir(fsBefore) \cup ({<<ConfigName>>} \cap DOMAIN fsBefore) :
               p \in DOMAIN fs /\ fs[p] = fsBefore[p]

(***************************************************************************)
(* Claims about the interactive screen                                     *)
(***************************************************************************)
\* C30: under every interleaving of key presses with the messages of /run,
\* /dry-run and the prompt generators, whenever the mode is ModeExplain the
\* index explainIdx addresses an issue of the list; the list is replaced by a
\* checks-complete message alone, which puts the screen in ModeResults; and
\* ModeExplain is entered with an index that lies within the list of the
\* moment.
ExplainIndexAddressesIssue ==
    /\ [](op = "interactive" =>
             (model.mode = "ModeExplain" =>
                  model.explainIdx \in 0..(Len(model.issues) - 1)))
    /\ [][op = "interactive" =>
             /\ model'.issues # model.issues =>
                    /\ msgs'["checksCompleteMsg"] = msgs["checksCompleteMsg"] - 1
                    /\ model'.mode = "ModeResults"
             /\ (model.mode # "ModeExplain" /\ model'.mode = "ModeExplain") =>
                    /\ model'.issues = model.issues
                    /\ model'.explainIdx \in 0..(Len(model.issues) - 1)
       ]_vars

\* An issue other than the first is explained while a run started before is
\* still under way, whose message can replace the list at any moment.
ExplainIndexWitness ==
    /\ op = "interactive"
    /\ model.mode = "ModeExplain"
    /\ model.explainIdx > 0
    /\ msgs["checksCompleteMsg"] > 0

=============================================================================
